---- MODULE Spec2Model ----
(***************************************************************************)
(* Model of the emer.land administrative REST gateway: the API-key         *)
(* middleware, the account and character list routes, the account and      *)
(* character repositories (accountsDb, charactersDb) and the MySQL tables  *)
(* they query.  Strings are sequences of one-character strings so that     *)
(* parseInt, toLowerCase, LIKE and template literals are computed.         *)
(***************************************************************************)
EXTENDS Integers, Sequences, FiniteSets, TLC

(***************************************************************************)
(* Bounds of the model.                                                    *)
(***************************************************************************)
\* number of rows of each table the external writers may insert from
MaxRows == 3
\* number of writes the external writers perform in one behaviour
MaxWrites == 1
\* last value of the clock (Unix seconds); the clock starts at 1
MaxNow == 2
\* number of concurrent requests of the account routes
MaxReq == 2

(***************************************************************************)
(* JavaScript values.  Every value is a record with the same fields: t is  *)
(* the kind, s the characters of a string (for an array: of String(array)),*)
(* v the integer of a finite number (1/0 for a boolean).                   *)
(***************************************************************************)
Undefined == [t |-> "undefined", s |-> <<>>, v |-> 0]
JsNull == [t |-> "null", s |-> <<>>, v |-> 0]
NaN == [t |-> "NaN", s |-> <<>>, v |-> 0]
Infinity == [t |-> "Infinity", s |-> <<>>, v |-> 0]
JsTrue == [t |-> "boolean", s |-> <<>>, v |-> 1]
JsFalse == [t |-> "boolean", s |-> <<>>, v |-> 0]
Str(s) == [t |-> "string", s |-> s, v |-> 0]
Arr(s) == [t |-> "array", s |-> s, v |-> 0]
Num(v) == [t |-> "number", s |-> <<>>, v |-> v]

IsInt(x) == x.t = "number"

\* ToBoolean: what `if (x)`, `x || y` and `!x` test
Truthy(x) ==
    CASE x.t = "string" -> x.s # <<>>
      [] x.t = "number" -> x.v # 0
      [] x.t = "boolean" -> x.v = 1
      [] x.t = "array" -> TRUE
      [] x.t = "Infinity" -> TRUE
      [] OTHER -> FALSE

\* x || y
JsOr(x, y) == IF Truthy(x) THEN x ELSE y

Digits == <<"0", "1", "2", "3", "4", "5", "6", "7", "8", "9">>
LowerCs == <<"a", "b", "c", "d", "e", "f", "g", "h", "i", "j", "k", "l", "m",
             "n", "o", "p", "q", "r", "s", "t", "u", "v", "w", "x", "y", "z">>
UpperCs == <<"A", "B", "C", "D", "E", "F", "G", "H", "I", "J", "K", "L", "M",
             "N", "O", "P", "Q", "R", "S", "T", "U", "V", "W", "X", "Y", "Z">>

IsDigit(c) == \E i \in 1..10 : Digits[i] = c
DigitVal(c) == (CHOOSE i \in 1..10 : Digits[i] = c) - 1

RECURSIVE IntToStr(_)
IntToStr(n) ==
    IF n < 0 THEN <<"-">> \o IntToStr(0 - n)
    ELSE IF n < 10 THEN <<Digits[n + 1]>>
    ELSE IntToStr(n \div 10) \o <<Digits[(n % 10) + 1]>>

\* String(x)
JsString(x) ==
    CASE x.t = "string" -> x.s
      [] x.t = "array" -> x.s
      [] x.t = "number" -> IntToStr(x.v)
      [] x.t = "NaN" -> <<"N", "a", "N">>
      [] x.t = "Infinity" -> <<"I", "n", "f", "i", "n", "i", "t", "y">>
      [] x.t = "boolean" -> IF x.v = 1 THEN <<"t", "r", "u", "e">>
                            ELSE <<"f", "a", "l", "s", "e">>
      [] x.t = "null" -> <<"n", "u", "l", "l">>
      [] OTHER -> <<"u", "n", "d", "e", "f", "i", "n", "e", "d">>

RECURSIVE SkipSpaces(_)
SkipSpaces(s) ==
    IF s # <<>> /\ Head(s) = " " THEN SkipSpaces(Tail(s)) ELSE s

RECURSIVE ReadDigits(_, _)
ReadDigits(s, acc) ==
    IF s # <<>> /\ IsDigit(Head(s))
    THEN ReadDigits(Tail(s), (acc * 10) + DigitVal(Head(s)))
    ELSE acc

\* parseInt(x, 10): leading blanks, an optional sign, then the longest run
\* of decimal digits; NaN when there is no digit
parseInt(x) ==
    LET str == SkipSpaces(JsString(x))
        neg == str # <<>> /\ Head(str) = "-"
        u == IF str # <<>> /\ Head(str) \in {"-", "+"} THEN Tail(str) ELSE str
    IN  IF u = <<>> \/ ~IsDigit(Head(u)) THEN NaN
        ELSE Num(IF neg THEN 0 - ReadDigits(u, 0) ELSE ReadDigits(u, 0))

\* String.prototype.toLowerCase
LowerChar(c) ==
    IF \E i \in 1..26 : UpperCs[i] = c
    THEN LowerCs[CHOOSE i \in 1..26 : UpperCs[i] = c]
    ELSE c
toLowerCase(s) == [i \in 1..Len(s) |-> LowerChar(s[i])]

\* a - b and a * b on JavaScript numbers (no Infinity operand arises here)
JsSub(a, b) == IF IsInt(a) /\ IsInt(b) THEN Num(a.v - b.v) ELSE NaN
JsMul(a, b) == IF IsInt(a) /\ IsInt(b) THEN Num(a.v * b.v) ELSE NaN


(***************************************************************************)
(* Dates: new Date("YYYY-MM-DD").getTime() / 1000 and                      *)
(* new Date(ts * 1000).toISOString(), in the proleptic Gregorian calendar. *)
(***************************************************************************)
DaysFromCivil(y0, m, d) ==
    LET y == IF m <= 2 THEN y0 - 1 ELSE y0
        era == y \div 400
        yoe == y - (era * 400)
        mp == IF m > 2 THEN m - 3 ELSE m + 9
        doy == (((153 * mp) + 2) \div 5) + (d - 1)
        doe == (yoe * 365) + (yoe \div 4) - (yoe \div 100) + doy
    IN  (era * 146097) + doe - 719468

CivilFromDays(days) ==
    LET z == days + 719468
        era == z \div 146097
        doe == z - (era * 146097)
        yoe == (doe - (doe \div 1460) + (doe \div 36524) - (doe \div 146096)) \div 365
        doy == doe - ((365 * yoe) + (yoe \div 4) - (yoe \div 100))
        mp == ((5 * doy) + 2) \div 153
        d == doy - (((153 * mp) + 2) \div 5) + 1
        m == IF mp < 10 THEN mp + 3 ELSE mp - 9
        y == yoe + (era * 400) + (IF m <= 2 THEN 1 ELSE 0)
    IN  [y |-> y, m |-> m, d |-> d]

IsLeap(y) == (y % 4 = 0 /\ y % 100 # 0) \/ y % 400 = 0
DaysInMonth(y, m) ==
    IF m = 2 THEN (IF IsLeap(y) THEN 29 ELSE 28)
    ELSE IF m \in {4, 6, 9, 11} THEN 30 ELSE 31

Pad2(n) == IF n < 10 THEN <<"0">> \o IntToStr(n) ELSE IntToStr(n)
Pad4(n) ==
    IF n < 10 THEN <<"0", "0", "0">> \o IntToStr(n)
    ELSE IF n < 100 THEN <<"0", "0">> \o IntToStr(n)
    ELSE IF n < 1000 THEN <<"0">> \o IntToStr(n)
    ELSE IntToStr(n)

\* new Date(ts * 1000).toISOString() for a timestamp ts >= 0 in seconds
toISOString(ts) ==
    LET c == CivilFromDays(ts \div 86400)
        sec == ts % 86400
    IN  Str(Pad4(c.y) \o <<"-">> \o Pad2(c.m) \o <<"-">> \o Pad2(c.d) \o <<"T">>
            \o Pad2(sec \div 3600) \o <<":">> \o Pad2((sec % 3600) \div 60)
            \o <<":">> \o Pad2(sec % 60) \o <<".", "0", "0", "0", "Z">>)

\* value.match(/^\d{4}-\d{2}-\d{2}$/)
MatchesDateShape(s) ==
    /\ Len(s) = 10
    /\ \A i \in {1, 2, 3, 4, 6, 7, 9, 10} : IsDigit(s[i])
    /\ s[5] = "-"
    /\ s[8] = "-"

\* Math.floor(new Date(value).getTime() / 1000) for a string of date shape:
\* midnight UTC of that day, NaN (Invalid Date) for a month or day out of
\* range
DateToUnix(s) ==
    LET y == ReadDigits(SubSeq(s, 1, 4), 0)
        m == ReadDigits(SubSeq(s, 6, 7), 0)
        d == ReadDigits(SubSeq(s, 9, 10), 0)
    IN  IF m < 1 \/ m > 12 \/ d < 1 \/ d > DaysInMonth(y, m) THEN NaN
        ELSE Num(DaysFromCivil(y, m, d) * 86400)

\* parseTimestamp of accounts.js and characters.js (the same text)
parseTimestamp(value) ==
    IF ~Truthy(value) THEN JsNull
    ELSE IF value.t = "string" /\ MatchesDateShape(value.s) THEN DateToUnix(value.s)
    ELSE LET timestamp == parseInt(value)
         IN  IF timestamp.t = "NaN" THEN JsNull ELSE timestamp


(***************************************************************************)
(* WHERE clauses.  A clause is the sequence of its fragments, which the    *)
(* code joins by " AND " and prefixes by "WHERE "; the empty sequence is   *)
(* the empty string.  A fragment `col` OP is the record of its column and  *)
(* of the rest of its text.                                                *)
(***************************************************************************)
Frag(col, op) == [col |-> col, op |-> op]
NoStep == [w |-> <<>>, p |-> <<>>]
\* the fragment appended and its parameter not pushed
AddStep_noParam(frag, param) == [w |-> <<frag>>, p |-> <<>>]

\* whereClause += (whereClause ? " AND " : "") + frag; params.push(param)
AddStep(frag, param) == [w |-> <<frag>>, p |-> <<param>>]
\* `%${value}%`
Percent(value) == Str(<<"%">> \o JsString(value) \o <<"%">>)

\* buildWhereClause of accounts.js; clock is the value of Date.now() / 1000
accounts_buildWhereClause(filters, clock) ==
    LET login == IF Truthy(filters.login)
                 THEN AddStep(Frag("login", "LIKE ?"), Percent(filters.login))
                 ELSE NoStep
        email == IF Truthy(filters.email)
                 THEN AddStep(Frag("l2email", "LIKE ?"), Percent(filters.email))
                 ELSE NoStep
        lastIP == IF Truthy(filters.lastIP)
                  THEN AddStep(Frag("lastIP", "LIKE ?"), Percent(filters.lastIP))
                  ELSE NoStep
        lastHWID == IF Truthy(filters.lastHWID)
                    THEN AddStep(Frag("lastHWID", "LIKE ?"), Percent(filters.lastHWID))
                    ELSE NoStep
        lastServerId == IF Truthy(filters.lastServerId)
                        THEN AddStep(Frag("lastServerId", "= ?"), parseInt(filters.lastServerId))
                        ELSE NoStep
        accessLevel == IF filters.accessLevel # Undefined
                       THEN AddStep(Frag("accessLevel", "= ?"), parseInt(filters.accessLevel))
                       ELSE NoStep
        tsFrom == parseTimestamp(filters.lastActiveFrom)
        lastActiveFrom == IF Truthy(filters.lastActiveFrom) /\ Truthy(tsFrom)
                          THEN AddStep(Frag("lastactive", ">= ?"), tsFrom)
                          ELSE NoStep
        tsTo == parseTimestamp(filters.lastActiveTo)
        lastActiveTo == IF Truthy(filters.lastActiveTo) /\ Truthy(tsTo)
                        THEN AddStep(Frag("lastactive", "<= ?"), tsTo)
                        ELSE NoStep
        isBanned == IF Truthy(filters.isBanned)
                    THEN AddStep(Frag("ban_expire", "> ?"), Num(clock))
                    ELSE NoStep
    IN  [whereClause |-> login.w \o email.w \o lastIP.w \o lastHWID.w
                         \o lastServerId.w \o accessLevel.w \o lastActiveFrom.w
                         \o lastActiveTo.w \o isBanned.w,
         params |-> login.p \o email.p \o lastIP.p \o lastHWID.p
                    \o lastServerId.p \o accessLevel.p \o lastActiveFrom.p
                    \o lastActiveTo.p \o isBanned.p]

CsTrue == <<"t", "r", "u", "e">>

\* buildWhereClause of characters.js
\* no predicate on deletetime unless deleted characters are asked for
DeletedPredicate_onlyWhenAsked(deletedOnly) ==
    IF deletedOnly = Str(CsTrue) THEN <<Frag("deletetime", "> 0")>> ELSE <<>>

\* if (filters.deletedOnly === 'true') ... else ...: the last fragment
DeletedPredicate(deletedOnly) ==
    IF deletedOnly = Str(CsTrue)
    THEN <<Frag("deletetime", "> 0")>>
    ELSE <<Frag("deletetime", "= 0")>>

characters_buildWhereClause(filters) ==
    LET char_name == IF Truthy(filters.char_name)
                     THEN AddStep(Frag("char_name", "LIKE ?"), Percent(filters.char_name))
                     ELSE NoStep
        account_name == IF Truthy(filters.account_name)
                        THEN AddStep(Frag("account_name", "LIKE ?"), Percent(filters.account_name))
                        ELSE NoStep
        clanid == IF Truthy(filters.clanid)
                  THEN AddStep(Frag("clanid", "= ?"), parseInt(filters.clanid))
                  ELSE NoStep
        online == IF filters.online # Undefined
                  THEN AddStep(Frag("online", "= ?"),
                               IF filters.online = Str(CsTrue) THEN Num(1) ELSE Num(0))
                  ELSE NoStep
        minLevel == IF filters.minLevel # Undefined
                    THEN AddStep(Frag("base_class_id", ">= ?"), parseInt(filters.minLevel))
                    ELSE NoStep
        maxLevel == IF filters.maxLevel # Undefined
                    THEN AddStep(Frag("base_class_id", "<= ?"), parseInt(filters.maxLevel))
                    ELSE NoStep
        tsCA == parseTimestamp(filters.createdAfter)
        createdAfter == IF Truthy(filters.createdAfter) /\ Truthy(tsCA)
                        THEN AddStep(Frag("createtime", ">= ?"), tsCA)
                        ELSE NoStep
        tsCB == parseTimestamp(filters.createdBefore)
        createdBefore == IF Truthy(filters.createdBefore) /\ Truthy(tsCB)
                         THEN AddStep(Frag("createtime", "<= ?"), tsCB)
                         ELSE NoStep
        tsLA == parseTimestamp(filters.lastAccessAfter)
        lastAccessAfter == IF Truthy(filters.lastAccessAfter) /\ Truthy(tsLA)
                           THEN AddStep(Frag("lastAccess", ">= ?"), tsLA)
                           ELSE NoStep
        tsLB == parseTimestamp(filters.lastAccessBefore)
        lastAccessBefore == IF Truthy(filters.lastAccessBefore) /\ Truthy(tsLB)
                            THEN AddStep(Frag("lastAccess", "<= ?"), tsLB)
                            ELSE NoStep
        sex == IF filters.sex # Undefined
               THEN AddStep(Frag("sex", "= ?"), parseInt(filters.sex))
               ELSE NoStep
        deleted == DeletedPredicate(filters.deletedOnly)
    IN  [whereClause |-> char_name.w \o account_name.w \o clanid.w \o online.w
                         \o minLevel.w \o maxLevel.w \o createdAfter.w
                         \o createdBefore.w \o lastAccessAfter.w
                         \o lastAccessBefore.w \o sex.w \o deleted,
         params |-> char_name.p \o account_name.p \o clanid.p \o online.p
                    \o minLevel.p \o maxLevel.p \o createdAfter.p
                    \o createdBefore.p \o lastAccessAfter.p
                    \o lastAccessBefore.p \o sex.p]

(***************************************************************************)
(* The MySQL side: evaluation of a clause on a row, the COUNT query and         *)
(* SELECT ... ORDER BY ... LIMIT ? OFFSET ?.  An integer column holds      *)
(* SqlNull for NULL; a string column holds the empty string for NULL.      *)
(***************************************************************************)
SqlNull == 0 - 1

RECURSIVE Like(_, _)
\* text LIKE pat, with the wildcards % and _
Like(text, pat) ==
    IF pat = <<>> THEN text = <<>>
    ELSE IF Head(pat) = "%"
         THEN Like(text, Tail(pat)) \/ (text # <<>> /\ Like(Tail(text), pat))
    ELSE IF text = <<>> THEN FALSE
    ELSE (Head(pat) = "_" \/ Head(pat) = Head(text)) /\ Like(Tail(text), Tail(pat))

StringColumns ==
    {"login", "password", "lastIP", "lastHWID", "char_name", "account_name"}

HasPlaceholder(f) == f.op \in {"LIKE ?", "= ?", ">= ?", "<= ?", "> ?"}

EvalPredicate(f, p, row) ==
    LET c == row[f.col]
    IN  CASE f.op = "LIKE ?" -> Like(c, JsString(p))
          [] f.op = "= ?" -> IF f.col \in StringColumns THEN c = JsString(p)
                             ELSE c # SqlNull /\ c = p.v
          [] f.op = ">= ?" -> c # SqlNull /\ c >= p.v
          [] f.op = "<= ?" -> c # SqlNull /\ c <= p.v
          [] f.op = "> ?" -> c # SqlNull /\ c > p.v
          [] f.op = "> 0" -> c # SqlNull /\ c > 0
          [] f.op = "= 0" -> c = 0
          [] OTHER -> FALSE

RECURSIVE RowMatches(_, _, _)
\* the i-th placeholder of the clause takes the i-th replacement
RowMatches(row, clause, repl) ==
    IF clause = <<>> THEN TRUE
    ELSE IF HasPlaceholder(Head(clause))
         THEN /\ EvalPredicate(Head(clause), Head(repl), row)
              /\ RowMatches(row, Tail(clause), Tail(repl))
         ELSE /\ EvalPredicate(Head(clause), Undefined, row)
              /\ RowMatches(row, Tail(clause), repl)

Selected(table, clause, repl) == {row \in table : RowMatches(row, clause, repl)}

\* a statement the server rejects: a NaN replacement is written as the
\* identifier NaN, and LIMIT and OFFSET take non-negative integers only
Rejected(repl, limit, offset) ==
    \/ \E i \in 1..Len(repl) : repl[i].t = "NaN"
    \/ ~IsInt(limit) \/ ~IsInt(offset)
    \/ limit.v < 0 \/ offset.v < 0

Alphabet == <<".">> \o Digits \o <<":", "@">> \o LowerCs
Code(c) == CHOOSE i \in 1..Len(Alphabet) : Alphabet[i] = c

RECURSIVE StrLeq(_, _)
StrLeq(a, b) ==
    IF a = <<>> THEN TRUE
    ELSE IF b = <<>> THEN FALSE
    ELSE IF Head(a) = Head(b) THEN StrLeq(Tail(a), Tail(b))
    ELSE Code(Head(a)) < Code(Head(b))

KeyLeq(a, b, field) ==
    IF field \in StringColumns THEN StrLeq(a[field], b[field]) ELSE a[field] <= b[field]

RECURSIVE OrderedSeqs(_, _, _)
\* every order of the rows the server may return for ORDER BY field dir:
\* rows of equal key come in any order
OrderedSeqs(rows, field, dir) ==
    IF rows = {} THEN {<<>>}
    ELSE LET first == {m \in rows : \A x \in rows :
                          IF dir = "ASC" THEN KeyLeq(m, x, field)
                          ELSE KeyLeq(x, m, field)}
         IN  UNION {{<<m>> \o s : s \in OrderedSeqs(rows \ {m}, field, dir)} :
                    m \in first}

Min(a, b) == IF a <= b THEN a ELSE b

\* LIMIT limit OFFSET offset of an ordered result
LimitOffset(s, limit, offset) == SubSeq(s, offset + 1, Min(offset + limit, Len(s)))


(***************************************************************************)
(* The tables.  Seed rows are numbered; row i of a table is a fixed row.   *)
(***************************************************************************)
UserLogin(i) == <<"u", "s", "e", "r", Digits[i + 1]>>

AccountRow(i) ==
    [login |-> UserLogin(i),
     password |-> <<"h", Digits[i + 1]>>,
     accessLevel |-> i % 2,
     lastactive |-> IF i = 1 THEN SqlNull ELSE i - 1,
     lastIP |-> <<"1", "0", ".", Digits[i + 1]>>,
     lastHWID |-> <<"h", "w", Digits[i + 1]>>,
     lastServerId |-> i % 2,
     ban_expire |-> IF i % 3 = 1 THEN 0 ELSE IF i % 3 = 2 THEN MaxNow + 1 ELSE 2,
     l2email |-> IF i = 1 THEN <<>> ELSE <<"m", Digits[i + 1], "@", "x">>]

LogRow(i) ==
    [login |-> UserLogin(2 - (i % 2)),
     time |-> i \div 2,
     lastServerId |-> 1,
     ip |-> <<"1", "0", ".", Digits[i + 1]>>,
     hwid |-> <<"h", "w", Digits[i + 1]>>]

CharacterRow(i) ==
    [obj_Id |-> 100 + i,
     char_name |-> <<"c", Digits[i + 1]>>,
     account_name |-> UserLogin(2 - (i % 2)),
     sex |-> i % 2,
     createtime |-> i,
     deletetime |-> IF i = 2 THEN 1 ELSE 0,
     lastAccess |-> (i + 1) \div 2,
     online |-> i % 2,
     onlinetime |-> 3600 * i,
     clanid |-> i % 2,
     base_class_id |-> i,
     pvpkills |-> i % 2,
     pkkills |-> 0,
     karma |-> 0]

\* hist is a history variable: for each login, the last statement that wrote
\* its row of accounts
VARIABLES accounts, account_log, characters, now, writes, apiKey, reqs, hist
vars == <<accounts, account_log, characters, now, writes, apiKey, reqs, hist>>

\* hist after the statement `op` wrote the row of `login`
Mark(h, login, op, v) ==
    {e \in h : e.login # login} \cup {[login |-> login, op |-> op, v |-> v]}

(***************************************************************************)
(* Requests.  A request is the record of its inputs (route, API-key header,*)
(* query or body q, path parameter login), of the locals of its handler    *)
(* and of its response (status 0: none yet).  The field before is a        *)
(* history field: the rows of the login of a delete request when the       *)
(* request arrived.                                                        *)
(***************************************************************************)
NoQuery == [none |-> Undefined]
NoSqlQuery == [clause |-> <<>>, sortField |-> "", order |-> "", repl |-> <<>>]
NoPagination == [total |-> Undefined, page |-> Undefined, limit |-> Undefined,
                 totalPages |-> Undefined]
IdleReq ==
    [pc |-> "idle", route |-> "", op |-> "", hdr |-> Undefined, q |-> NoQuery,
     login |-> <<>>, page |-> Undefined, limit |-> Undefined,
     offset |-> Undefined, countQuery |-> NoSqlQuery, dataQuery |-> NoSqlQuery,
     total |-> Undefined, wcount |-> 0, wdata |-> 0, hash |-> <<>>, nq |-> 0,
     clock |-> 0, banExpireTimestamp |-> Undefined,
     handler |-> "", objId |-> Undefined,
     before |-> [accounts |-> {}, account_log |-> {}], status |-> 0, err |-> "",
     rows |-> <<>>, pagination |-> NoPagination]

\* x = d in a destructuring pattern
Default(x, d) == IF x = Undefined THEN d ELSE x

\* res.status(status).json(...) of a catch block or an early return
Respond(req, status, err) == [req EXCEPT !.pc = "done", !.status = status, !.err = err]

\* the test for a missing header left out
apiKeyMiddleware_noPresenceTest(providedApiKey, expectedApiKey) ==
    ~(providedApiKey # expectedApiKey)

\* apiKeyMiddleware: TRUE when next() is called, FALSE when it answers 401
apiKeyMiddleware(providedApiKey, expectedApiKey) ==
    ~(~Truthy(providedApiKey) \/ providedApiKey # expectedApiKey)

(***************************************************************************)
(* accountsDb.getAccounts, accountsDb.getAccountLoginHistory,              *)
(* charactersDb.getCharacters and charactersDb.getAccountCharacters up to  *)
(* their first await: the request record with the two statements built.    *)
(***************************************************************************)
CsName ==
    [login |-> <<"l", "o", "g", "i", "n">>,
     password |-> <<"p", "a", "s", "s", "w", "o", "r", "d">>,
     lastactive |-> <<"l", "a", "s", "t", "a", "c", "t", "i", "v", "e">>,
     accessLevel |-> <<"a", "c", "c", "e", "s", "s", "L", "e", "v", "e", "l">>,
     lastIP |-> <<"l", "a", "s", "t", "I", "P">>,
     lastHWID |-> <<"l", "a", "s", "t", "H", "W", "I", "D">>,
     lastServerId |-> <<"l", "a", "s", "t", "S", "e", "r", "v", "e", "r", "I", "d">>,
     ban_expire |-> <<"b", "a", "n", "_", "e", "x", "p", "i", "r", "e">>,
     char_name |-> <<"c", "h", "a", "r", "_", "n", "a", "m", "e">>,
     account_name |-> <<"a", "c", "c", "o", "u", "n", "t", "_", "n", "a", "m", "e">>,
     createtime |-> <<"c", "r", "e", "a", "t", "e", "t", "i", "m", "e">>,
     lastAccess |-> <<"l", "a", "s", "t", "A", "c", "c", "e", "s", "s">>,
     online |-> <<"o", "n", "l", "i", "n", "e">>,
     clanid |-> <<"c", "l", "a", "n", "i", "d">>,
     pvpkills |-> <<"p", "v", "p", "k", "i", "l", "l", "s">>,
     pkkills |-> <<"p", "k", "k", "i", "l", "l", "s">>,
     karma |-> <<"k", "a", "r", "m", "a">>,
     onlinetime |-> <<"o", "n", "l", "i", "n", "e", "t", "i", "m", "e">>]

\* password accepted as a sort field
accounts_validSortFields_withPassword ==
    <<"login", "password", "lastactive", "accessLevel", "lastIP", "lastHWID",
      "lastServerId", "ban_expire">>

accounts_validSortFields ==
    <<"login", "lastactive", "accessLevel", "lastIP", "lastHWID", "lastServerId",
      "ban_expire">>
characters_validSortFields ==
    <<"char_name", "account_name", "createtime", "lastAccess", "online", "clanid",
      "pvpkills", "pkkills", "karma", "onlinetime">>

\* validSortFields.includes(sortBy) ? sortBy : fallback
SortFieldOf(validSortFields, sortBy, fallback) ==
    IF sortBy.t = "string" /\ \E i \in 1..Len(validSortFields) : CsName[validSortFields[i]] = sortBy.s
    THEN validSortFields[CHOOSE i \in 1..Len(validSortFields) : CsName[validSortFields[i]] = sortBy.s]
    ELSE fallback

\* sortOrder.toLowerCase() === 'desc' ? 'DESC' : 'ASC', for a string
OrderOf(sortOrder) ==
    IF toLowerCase(sortOrder.s) = <<"d", "e", "s", "c">> THEN "DESC" ELSE "ASC"

\* offset computed as page * limit
ListCall_pageTimesLimit(req, op, page, limit, clause, params, sortField, order) ==
    LET offset == JsMul(page, limit)
    IN  [req EXCEPT !.pc = "count", !.op = op, !.page = page, !.limit = limit,
                    !.offset = offset,
                    !.countQuery = [clause |-> clause, sortField |-> "",
                                    order |-> "", repl |-> params],
                    !.dataQuery = [clause |-> clause, sortField |-> sortField,
                                   order |-> order,
                                   repl |-> params \o <<limit, offset>>]]

\* limit and offset bound before the predicate values
ListCall_replacementsSwapped(req, op, page, limit, clause, params, sortField, order) ==
    LET offset == JsMul(JsSub(page, Num(1)), limit)
    IN  [req EXCEPT !.pc = "count", !.op = op, !.page = page, !.limit = limit,
                    !.offset = offset,
                    !.countQuery = [clause |-> clause, sortField |-> "",
                                    order |-> "", repl |-> params],
                    !.dataQuery = [clause |-> clause, sortField |-> sortField,
                                   order |-> order,
                                   repl |-> <<limit, offset>> \o params]]

\* the count query built with the clause and the data query without it
ListCall_dataWithoutWhere(req, op, page, limit, clause, params, sortField, order) ==
    LET offset == JsMul(JsSub(page, Num(1)), limit)
    IN  [req EXCEPT !.pc = "count", !.op = op, !.page = page, !.limit = limit,
                    !.offset = offset,
                    !.countQuery = [clause |-> clause, sortField |-> "",
                                    order |-> "", repl |-> params],
                    !.dataQuery = [clause |-> <<>>, sortField |-> sortField,
                                   order |-> order,
                                   repl |-> <<limit, offset>>]]

\* the statements and locals common to the four list operations
ListCall(req, op, page, limit, clause, params, sortField, order) ==
    LET offset == JsMul(JsSub(page, Num(1)), limit)
    IN  [req EXCEPT !.pc = "count", !.op = op, !.page = page, !.limit = limit,
                    !.offset = offset,
                    !.countQuery = [clause |-> clause, sortField |-> "",
                                    order |-> "", repl |-> params],
                    !.dataQuery = [clause |-> clause, sortField |-> sortField,
                                   order |-> order,
                                   repl |-> params \o <<limit, offset>>]]

accountsDb_getAccounts(req, options, clock) ==
    LET page == Default(options.page, Num(1))
        limit == Default(options.limit, Num(10))
        sortBy == Default(options.sortBy, Str(CsName.login))
        sortOrder == Default(options.sortOrder, Str(<<"a", "s", "c">>))
        built == accounts_buildWhereClause(options.filters, clock)
        sortField == SortFieldOf(accounts_validSortFields, sortBy, "login")
    IN  IF sortOrder.t # "string"
        THEN Respond([req EXCEPT !.op = "getAccounts"], 500, "TypeError")
        ELSE ListCall(req, "getAccounts", page, limit, built.whereClause,
                      built.params, sortField, OrderOf(sortOrder))

charactersDb_getCharacters(req, options) ==
    LET page == Default(options.page, Num(1))
        limit == Default(options.limit, Num(10))
        sortBy == Default(options.sortBy, Str(CsName.char_name))
        sortOrder == Default(options.sortOrder, Str(<<"a", "s", "c">>))
        built == characters_buildWhereClause(options.filters)
        sortField == SortFieldOf(characters_validSortFields, sortBy, "char_name")
    IN  IF sortOrder.t # "string"
        THEN Respond([req EXCEPT !.op = "getCharacters"], 500, "TypeError")
        ELSE ListCall(req, "getCharacters", page, limit, built.whereClause,
                      built.params, sortField, OrderOf(sortOrder))

\* the entries ordered oldest first
accountsDb_getAccountLoginHistory_ascending(req, login, options) ==
    ListCall(req, "getAccountLoginHistory", Default(options.page, Num(1)),
             Default(options.limit, Num(10)), <<Frag("login", "= ?")>>,
             <<Str(login)>>, "time", "ASC")

accountsDb_getAccountLoginHistory(req, login, options) ==
    ListCall(req, "getAccountLoginHistory", Default(options.page, Num(1)),
             Default(options.limit, Num(10)), <<Frag("login", "= ?")>>,
             <<Str(login)>>, "time", "DESC")

charactersDb_getAccountCharacters(req, accountName, options) ==
    ListCall(req, "getAccountCharacters", Default(options.page, Num(1)),
             Default(options.limit, Num(10)),
             IF Truthy(Default(options.includDeleted, JsFalse))
             THEN <<Frag("account_name", "= ?")>>
             ELSE <<Frag("account_name", "= ?"), Frag("deletetime", "= 0")>>,
             <<Str(accountName)>>, "lastAccess", "DESC")


(***************************************************************************)
(* Route handlers up to their first await.                                 *)
(***************************************************************************)
CsAsc == <<"a", "s", "c">>
Present(x) == IF Truthy(x) THEN x ELSE Undefined

\* every non-empty value of isBanned taken for true
AccountListRoute_anyFlag(req, clock) ==
    LET q == req.q
        filters == [login |-> Present(q.login),
                    email |-> Present(q.email),
                    lastIP |-> Present(q.lastIP),
                    lastHWID |-> Present(q.lastHWID),
                    lastServerId |-> Present(q.lastServerId),
                    accessLevel |-> q.accessLevel,
                    lastActiveFrom |-> Present(q.lastActiveFrom),
                    lastActiveTo |-> Present(q.lastActiveTo),
                    isBanned |-> IF Truthy(q.isBanned) THEN JsTrue ELSE Undefined]
    IN  accountsDb_getAccounts(req,
            [page |-> parseInt(JsOr(q.page, Num(1))),
             limit |-> parseInt(JsOr(q.limit, Num(10))),
             filters |-> filters,
             sortBy |-> JsOr(q.sortBy, Str(CsName.login)),
             sortOrder |-> JsOr(q.sortOrder, Str(CsAsc))], clock)

\* router.get("/list") of account.js
AccountListRoute(req, clock) ==
    LET q == req.q
        filters == [login |-> Present(q.login),
                    email |-> Present(q.email),
                    lastIP |-> Present(q.lastIP),
                    lastHWID |-> Present(q.lastHWID),
                    lastServerId |-> Present(q.lastServerId),
                    accessLevel |-> q.accessLevel,
                    lastActiveFrom |-> Present(q.lastActiveFrom),
                    lastActiveTo |-> Present(q.lastActiveTo),
                    isBanned |-> IF q.isBanned = Str(CsTrue) THEN JsTrue ELSE Undefined]
    IN  accountsDb_getAccounts(req,
            [page |-> parseInt(JsOr(q.page, Num(1))),
             limit |-> parseInt(JsOr(q.limit, Num(10))),
             filters |-> filters,
             sortBy |-> JsOr(q.sortBy, Str(CsName.login)),
             sortOrder |-> JsOr(q.sortOrder, Str(CsAsc))], clock)

\* router.get("/list") of the characters router
CharacterListRoute(req) ==
    LET q == req.q
        filters == [char_name |-> Present(q.char_name),
                    account_name |-> Present(q.account_name),
                    clanid |-> Present(q.clanid),
                    online |-> q.online,
                    minLevel |-> Present(q.minLevel),
                    maxLevel |-> Present(q.maxLevel),
                    createdAfter |-> Present(q.createdAfter),
                    createdBefore |-> Present(q.createdBefore),
                    lastAccessAfter |-> Present(q.lastAccessAfter),
                    lastAccessBefore |-> Present(q.lastAccessBefore),
                    sex |-> q.sex,
                    deletedOnly |-> IF q.deletedOnly = Str(CsTrue) THEN Str(CsTrue)
                                    ELSE Undefined]
    IN  charactersDb_getCharacters(req,
            [page |-> parseInt(JsOr(q.page, Num(1))),
             limit |-> parseInt(JsOr(q.limit, Num(10))),
             filters |-> filters,
             sortBy |-> JsOr(q.sortBy, Str(CsName.char_name)),
             sortOrder |-> JsOr(q.sortOrder, Str(CsAsc))])

\* router.get("/:login/history") after accountsDb.exists answered true
AccountHistoryRoute(req) ==
    accountsDb_getAccountLoginHistory(req, req.login,
        [page |-> parseInt(JsOr(req.q.page, Num(1))),
         limit |-> parseInt(JsOr(req.q.limit, Num(10)))])

\* router.get("/account/:accountName") after accountsDb.exists answered true
AccountCharactersRoute(req) ==
    charactersDb_getAccountCharacters(req, req.login,
        [page |-> parseInt(JsOr(req.q.page, Num(1))),
         limit |-> parseInt(JsOr(req.q.limit, Num(10))),
         includDeleted |-> IF req.q.includDeleted = Str(CsTrue) THEN JsTrue ELSE JsFalse])

(***************************************************************************)
(* The rows of a response: the SELECT list of each operation and the       *)
(* derived fields it adds.                                                 *)
(***************************************************************************)
JsBool(b) == IF b THEN JsTrue ELSE JsFalse
\* ts ? new Date(ts * 1000).toISOString() : null
DateOrNull(ts) == IF ts # SqlNull /\ ts # 0 THEN toISOString(ts) ELSE JsNull

\* the SELECT list of the data query of each operation (the columns title,
\* accesslevel, x, y, z of characters carry no logic and are left out)
SelectList(op) ==
    CASE op = "getAccounts" ->
            {"login", "accessLevel", "lastactive", "lastIP", "lastHWID",
             "lastServerId", "ban_expire"}
      [] op = "getAccountLoginHistory" -> {"time", "lastServerId", "ip", "hwid"}
      [] op = "getCharacters" ->
            {"obj_Id", "char_name", "account_name", "sex", "createtime",
             "deletetime", "lastAccess", "online", "onlinetime", "clanid",
             "pvpkills", "pkkills", "karma"}
      [] OTHER ->
            {"obj_Id", "char_name", "sex", "createtime", "deletetime",
             "lastAccess", "online", "onlinetime", "clanid", "pvpkills", "pkkills"}

SelectRow(op, row) ==
    LET cols == [c \in SelectList(op) |-> row[c]]
    IN  IF op = "getAccounts" THEN [email |-> row.l2email] @@ cols ELSE cols

\* accounts.map(account => ...) of getAccounts
EnrichAccount(account, clock) ==
    [lastactiveDate |-> DateOrNull(account.lastactive),
     isBanned |-> JsBool(account.ban_expire > clock),
     banExpireDate |-> IF account.ban_expire > clock
                       THEN toISOString(account.ban_expire) ELSE JsNull]
    @@ account

\* historyData.map(entry => ...) of getAccountLoginHistory
EnrichEntry(entry) == [date |-> DateOrNull(entry.time)] @@ entry

enrichCharacterData(character) ==
    [createDate |-> DateOrNull(character.createtime),
     deleteDate |-> IF character.deletetime # SqlNull /\ character.deletetime # 0
                       /\ character.deletetime > 0
                    THEN toISOString(character.deletetime) ELSE JsNull,
     lastAccessDate |-> DateOrNull(character.lastAccess),
     isOnline |-> JsBool(character.online = 1),
     isDeleted |-> JsBool(character.deletetime > 0),
     gender |-> IF character.sex = 1 THEN "male" ELSE "female",
     onlineTimeHours |-> character.onlinetime \div 3600]
    @@ character

EnrichRow(op, row, clock) ==
    CASE op = "getAccounts" -> EnrichAccount(row, clock)
      [] op = "getAccountLoginHistory" -> EnrichEntry(row)
      [] OTHER -> enrichCharacterData(row)

\* Math.floor in place of Math.ceil
MathCeilDiv_floor(a, b) ==
    IF ~IsInt(a) \/ ~IsInt(b) \/ b.v <= 0 THEN NaN ELSE Num(a.v \div b.v)

\* Math.ceil(a / b)
MathCeilDiv(a, b) ==
    IF ~IsInt(a) \/ ~IsInt(b) THEN NaN
    ELSE IF b.v = 0 THEN (IF a.v = 0 THEN NaN ELSE Infinity)
    ELSE IF b.v > 0 THEN Num(0 - ((0 - a.v) \div b.v))
    ELSE Num(0 - (a.v \div (0 - b.v)))

Pagination(total, page, limit) ==
    [total |-> total, page |-> parseInt(page), limit |-> parseInt(limit),
     totalPages |-> MathCeilDiv(total, limit)]


(***************************************************************************)
(* Inputs of the list routes.                                              *)
(***************************************************************************)
Headers == {Undefined, Str(<<"k">>), Str(<<"x">>)}
ApiKeys == {Undefined, Str(<<"k">>)}

RawNumbers ==
    {Undefined, Str(<<>>), Str(<<"a">>), Str(<<"0">>), Str(<<"-", "1">>),
     Str(<<"1">>), Str(<<"2">>), Str(<<"2", "x">>)}
RawPaging == {<<Undefined, Undefined>>, <<Str(<<"2">>), Str(<<"1">>)>>}
RawFlags == {Undefined, Str(CsTrue), Str(<<"f", "a", "l", "s", "e">>)}
RawSortOrders ==
    {Undefined, Str(<<"d", "e", "s", "c">>), Str(<<"D", "E", "S", "C">>),
     Str(<<"D", "e", "s", "c">>), Str(CsAsc), Str(<<"x">>),
     Arr(<<"a", "s", "c", ",", "d", "e", "s", "c">>)}

BaseAccountQuery ==
    [page |-> Undefined, limit |-> Undefined, login |-> Undefined,
     email |-> Undefined, lastIP |-> Undefined, lastHWID |-> Undefined,
     lastServerId |-> Undefined, accessLevel |-> Undefined,
     lastActiveFrom |-> Undefined, lastActiveTo |-> Undefined,
     isBanned |-> Undefined, sortBy |-> Undefined, sortOrder |-> Undefined]

AccountListQueries ==
    {[BaseAccountQuery EXCEPT !.page = p, !.limit = l] : p, l \in RawNumbers}
    \cup {[BaseAccountQuery EXCEPT !.page = pl[1], !.limit = pl[2], !.login = lg,
                                   !.accessLevel = al, !.isBanned = ib,
                                   !.lastActiveFrom = lf] :
            pl \in RawPaging, lg \in {Undefined, Str(<<"r", "2">>)},
            al \in {Undefined, Str(<<"1">>), Str(<<"x">>)}, ib \in RawFlags,
            lf \in {Undefined, Str(<<"1">>)}}
    \cup {[BaseAccountQuery EXCEPT !.sortBy = sb, !.sortOrder = so] :
            sb \in {Undefined, Str(CsName.accessLevel), Str(CsName.ban_expire),
                    Str(CsName.password),
                    Arr(CsName.login \o <<",">> \o CsName.lastIP)},
            so \in RawSortOrders}
    \cup {[BaseAccountQuery EXCEPT !.email = Str(<<"@">>)],
          [BaseAccountQuery EXCEPT !.lastIP = Str(<<".", "2">>)],
          [BaseAccountQuery EXCEPT !.lastHWID = Str(<<"w", "1">>)],
          [BaseAccountQuery EXCEPT !.lastServerId = Str(<<"1">>)],
          [BaseAccountQuery EXCEPT !.lastActiveTo = Str(<<"1">>)]}

BaseCharacterQuery ==
    [page |-> Undefined, limit |-> Undefined, char_name |-> Undefined,
     account_name |-> Undefined, clanid |-> Undefined, online |-> Undefined,
     minLevel |-> Undefined, maxLevel |-> Undefined, createdAfter |-> Undefined,
     createdBefore |-> Undefined, lastAccessAfter |-> Undefined,
     lastAccessBefore |-> Undefined, sex |-> Undefined, deletedOnly |-> Undefined,
     sortBy |-> Undefined, sortOrder |-> Undefined]

CharacterListQueries ==
    {[BaseCharacterQuery EXCEPT !.page = p, !.limit = l] : p, l \in RawNumbers}
    \cup {[BaseCharacterQuery EXCEPT !.page = pl[1], !.limit = pl[2],
                                     !.account_name = an, !.online = on,
                                     !.sex = sx, !.deletedOnly = dl] :
            pl \in RawPaging, an \in {Undefined, Str(<<"r", "1">>)},
            on \in RawFlags, sx \in {Undefined, Str(<<"1">>), Str(<<"x">>)},
            dl \in RawFlags}
    \cup {[BaseCharacterQuery EXCEPT !.sortBy = sb, !.sortOrder = so] :
            sb \in {Undefined, Str(CsName.clanid), Str(CsName.lastAccess),
                    Str(<<"o", "b", "j", "_", "I", "d">>),
                    Arr(CsName.karma \o <<",">> \o CsName.online)},
            so \in RawSortOrders}
    \cup {[BaseCharacterQuery EXCEPT !.char_name = Str(<<"c">>)],
          [BaseCharacterQuery EXCEPT !.clanid = Str(<<"1">>)],
          [BaseCharacterQuery EXCEPT !.minLevel = Str(<<"2">>)],
          [BaseCharacterQuery EXCEPT !.maxLevel = Str(<<"1">>)],
          [BaseCharacterQuery EXCEPT !.createdAfter = Str(<<"2">>)],
          [BaseCharacterQuery EXCEPT !.createdBefore = Str(<<"1">>)],
          [BaseCharacterQuery EXCEPT !.lastAccessAfter = Str(<<"1">>)],
          [BaseCharacterQuery EXCEPT !.lastAccessBefore = Str(<<"1">>)]}

PagingQueries ==
    {[page |-> p, limit |-> l, includDeleted |-> Undefined] : p, l \in RawNumbers}
AccountCharactersQueries ==
    PagingQueries
    \cup {[page |-> pl[1], limit |-> pl[2], includDeleted |-> d] :
            pl \in RawPaging, d \in RawFlags}

\* logins a path parameter names: two seed accounts and one that never exists
PathLogins == {UserLogin(1), UserLogin(2), <<"n", "o", "n", "e">>}


(***************************************************************************)
(* Initial state: the seed rows 1 .. MaxRows - 1 of each table, the clock  *)
(* at 1, API_KEY set or not, no request.                                   *)
(***************************************************************************)
Slots == 1..MaxReq

Init ==
    /\ accounts = {AccountRow(i) : i \in 1..(MaxRows - 1)}
    /\ account_log = {LogRow(i) : i \in 1..(MaxRows - 1)}
    /\ characters = {CharacterRow(i) : i \in 1..(MaxRows - 1)}
    /\ now = 1
    /\ writes = 0
    /\ apiKey \in ApiKeys
    /\ reqs = [r \in Slots |-> IdleReq]
    /\ hist = {}

NewReq(route, hdr, q, login) ==
    [IdleReq EXCEPT !.route = route, !.hdr = hdr, !.q = q, !.login = login]

\* a request whose API-key header is absent or wrong: apiKeyMiddleware
\* answers 401 and no route handler runs
Unauthorized(r) ==
    /\ reqs[r].pc = "idle"
    /\ \E hdr \in Headers :
          /\ ~apiKeyMiddleware(hdr, apiKey)
          /\ reqs' = [reqs EXCEPT ![r] =
                         Respond([IdleReq EXCEPT !.hdr = hdr], 401, "Unauthorized")]
    /\ UNCHANGED <<hist, accounts, account_log, characters, now, writes, apiKey>>

\* GET /api/login/account/list
ReceiveAccountList(r) ==
    /\ reqs[r].pc = "idle"
    /\ \E hdr \in Headers, q \in AccountListQueries :
          /\ apiKeyMiddleware(hdr, apiKey)
          /\ reqs' = [reqs EXCEPT ![r] =
                         AccountListRoute(NewReq("accountList", hdr, q, <<>>), now)]
    /\ UNCHANGED <<hist, accounts, account_log, characters, now, writes, apiKey>>

\* GET /api/game/characters/list
ReceiveCharacterList(r) ==
    /\ reqs[r].pc = "idle"
    /\ \E hdr \in Headers, q \in CharacterListQueries :
          /\ apiKeyMiddleware(hdr, apiKey)
          /\ reqs' = [reqs EXCEPT ![r] =
                         CharacterListRoute(NewReq("characterList", hdr, q, <<>>))]
    /\ UNCHANGED <<hist, accounts, account_log, characters, now, writes, apiKey>>

\* GET /api/login/account/{login}/history: issues accountsDb.exists
ReceiveAccountHistory(r) ==
    /\ reqs[r].pc = "idle"
    /\ \E hdr \in Headers, q \in PagingQueries, login \in PathLogins :
          /\ apiKeyMiddleware(hdr, apiKey)
          /\ reqs' = [reqs EXCEPT ![r] =
                         [NewReq("accountHistory", hdr, q, login) EXCEPT !.pc = "exists"]]
    /\ UNCHANGED <<hist, accounts, account_log, characters, now, writes, apiKey>>

\* GET /api/game/characters/account/{accountName}: issues accountsDb.exists
ReceiveAccountCharacters(r) ==
    /\ reqs[r].pc = "idle"
    /\ \E hdr \in Headers, q \in AccountCharactersQueries, login \in PathLogins :
          /\ apiKeyMiddleware(hdr, apiKey)
          /\ reqs' = [reqs EXCEPT ![r] =
                         [NewReq("accountCharacters", hdr, q, login) EXCEPT !.pc = "exists"]]
    /\ UNCHANGED <<hist, accounts, account_log, characters, now, writes, apiKey>>

\* Math.floor(new Date(value).getTime() / 1000) for the values modelled: a
\* number is a count of milliseconds, a string of date shape a day, a string
\* without a digit an Invalid Date
UnixOfDate(value) ==
    CASE value.t = "number" -> Num(value.v \div 1000)
      [] value.t = "string" /\ MatchesDateShape(value.s) -> DateToUnix(value.s)
      [] value.t = "string" /\ ~\E i \in 1..Len(value.s) : IsDigit(value.s[i]) -> NaN

\* router.post("/:login/ban") after accountsDb.exists answered true: clock is
\* the value of Date.now() / 1000
BanRoute(req, clock) ==
    LET banExpireTimestamp == UnixOfDate(req.q.banExpire)
    IN  IF IsInt(banExpireTimestamp) /\ banExpireTimestamp.v <= clock
        THEN [Respond(req, 400, "Validation") EXCEPT
                 !.clock = clock, !.banExpireTimestamp = banExpireTimestamp]
        ELSE [req EXCEPT !.pc = "banUpdate", !.clock = clock,
                         !.banExpireTimestamp = banExpireTimestamp]

\* passwordUtils.defaultHash: the SHA-1 digest, kept as a tagged copy of the
\* password (distinct passwords have distinct digests)
defaultHash(password) == <<"s", "h", "a", "1", ":">> \o password

\* accountsDb.exists: SELECT COUNT of the accounts of that login, count > 0
accountsDb_exists(login) == Cardinality({a \in accounts : a.login = login}) > 0

\* the handler after `await accountsDb.exists(login)` returned
AfterExists(req, accountExists) ==
    CASE req.route = "accountHistory" ->
            IF ~accountExists THEN Respond(req, 404, "NotFound")
            ELSE AccountHistoryRoute(req)
      [] req.route = "accountCharacters" ->
            IF ~accountExists THEN Respond(req, 404, "NotFound")
            ELSE AccountCharactersRoute(req)
      [] req.route = "register" ->
            IF accountExists THEN Respond(req, 409, "Conflict")
            ELSE [req EXCEPT !.pc = "create", !.hash = defaultHash(req.q.password.s)]
      [] req.route = "changePassword" ->
            IF ~accountExists THEN Respond(req, 404, "NotFound")
            ELSE [req EXCEPT !.pc = "passwordUpdate",
                             !.hash = defaultHash(req.q.newPassword.s)]
      [] req.route = "delete" ->
            IF ~accountExists THEN Respond(req, 404, "NotFound")
            ELSE [req EXCEPT !.pc = "deleteAccount"]
      [] req.route = "ban" ->
            IF ~accountExists THEN Respond(req, 404, "NotFound")
            ELSE BanRoute(req, now)
      [] req.route = "unban" ->
            IF ~accountExists THEN Respond(req, 404, "NotFound")
            ELSE [req EXCEPT !.pc = "unbanUpdate"]
      [] OTHER -> Respond(req, 500, "NoRoute")

\* the server answers the query of accountsDb.exists
DbExists(r) ==
    /\ reqs[r].pc = "exists"
    /\ reqs' = [reqs EXCEPT ![r] =
                   AfterExists([reqs[r] EXCEPT !.nq = @ + 1],
                               accountsDb_exists(reqs[r].login))]
    /\ UNCHANGED <<hist, accounts, account_log, characters, now, writes, apiKey>>

TableOf(op) ==
    CASE op = "getAccounts" -> accounts
      [] op = "getAccountLoginHistory" -> account_log
      [] OTHER -> characters

\* the server answers the count query; the operation reads total and
\* issues the data query
DbCount(r) ==
    /\ reqs[r].pc = "count"
    /\ LET req == [reqs[r] EXCEPT !.nq = @ + 1]
           cq == req.countQuery
       IN  reqs' = [reqs EXCEPT ![r] =
               IF Rejected(cq.repl, Num(0), Num(0))
               THEN Respond(req, 500, "DatabaseError")
               ELSE [req EXCEPT !.pc = "data", !.wcount = writes,
                        !.total = parseInt(Str(IntToStr(
                            Cardinality(Selected(TableOf(req.op), cq.clause, cq.repl)))))]]
    /\ UNCHANGED <<hist, accounts, account_log, characters, now, writes, apiKey>>

\* the server answers the data query; the operation adds the derived
\* fields and the pagination block, and the route sends the result
DbData(r) ==
    /\ reqs[r].pc = "data"
    /\ LET req == [reqs[r] EXCEPT !.nq = @ + 1]
           dq == req.dataQuery
           n == Len(dq.repl)
           repl == SubSeq(dq.repl, 1, n - 2)
       IN  IF Rejected(repl, dq.repl[n - 1], dq.repl[n])
           THEN reqs' = [reqs EXCEPT ![r] = Respond(req, 500, "DatabaseError")]
           ELSE \E ord \in OrderedSeqs(Selected(TableOf(req.op), dq.clause, repl),
                                       dq.sortField, dq.order) :
                   LET data == LimitOffset(ord, dq.repl[n - 1].v, dq.repl[n].v)
                   IN  reqs' = [reqs EXCEPT ![r] =
                           [Respond(req, 200, "") EXCEPT
                              !.wdata = writes,
                              !.rows = [i \in 1..Len(data) |->
                                          EnrichRow(req.op, SelectRow(req.op, data[i]), now)],
                              !.pagination = Pagination(req.total, req.page, req.limit)]]
    /\ UNCHANGED <<hist, accounts, account_log, characters, now, writes, apiKey>>

\* the failed query is issued again in place of the error being rethrown
DbFail_retry(r) ==
    /\ reqs[r].pc \notin {"idle", "done"}
    /\ reqs[r].nq < 3
    /\ reqs' = [reqs EXCEPT ![r] = [@ EXCEPT !.nq = @ + 1]]
    /\ UNCHANGED <<hist, accounts, account_log, characters, now, writes, apiKey>>

\* a query fails (connection lost, pool timeout): the repository rethrows
\* and the route answers 500
DbFail(r) ==
    /\ reqs[r].pc \notin {"idle", "done"}
    /\ reqs' = [reqs EXCEPT ![r] =
                   Respond([reqs[r] EXCEPT !.nq = @ + 1], 500, "DatabaseError")]
    /\ UNCHANGED <<hist, accounts, account_log, characters, now, writes, apiKey>>

\* the response is sent; the slot takes the next request
Reset(r) ==
    /\ reqs[r].pc = "done"
    /\ reqs' = [reqs EXCEPT ![r] = IdleReq]
    /\ UNCHANGED <<hist, accounts, account_log, characters, now, writes, apiKey>>

\* the clock advances
Tick ==
    /\ now < MaxNow
    /\ now' = now + 1
    /\ UNCHANGED <<hist, accounts, account_log, characters, writes, apiKey, reqs>>

(***************************************************************************)
(* Writers outside the request under study: the login and game servers     *)
(* and other requests of this API insert, delete and update rows.          *)
(***************************************************************************)
ExtInsertAccount ==
    /\ writes < MaxWrites
    /\ \E i \in 1..MaxRows :
          /\ ~accountsDb_exists(AccountRow(i).login)
          /\ accounts' = accounts \cup {AccountRow(i)}
          /\ hist' = Mark(hist, AccountRow(i).login, "external", 0)
    /\ writes' = writes + 1
    /\ UNCHANGED <<account_log, characters, now, apiKey, reqs>>

ExtDeleteAccount ==
    /\ writes < MaxWrites
    /\ \E a \in accounts :
          /\ accounts' = accounts \ {a}
          /\ hist' = Mark(hist, a.login, "external", 0)
    /\ writes' = writes + 1
    /\ UNCHANGED <<account_log, characters, now, apiKey, reqs>>

\* UPDATE accounts SET ban_expire = 0
ExtUpdateAccount ==
    /\ writes < MaxWrites
    /\ \E a \in accounts :
          /\ a.ban_expire # 0
          /\ accounts' = (accounts \ {a}) \cup {[a EXCEPT !.ban_expire = 0]}
          /\ hist' = Mark(hist, a.login, "external", 0)
    /\ writes' = writes + 1
    /\ UNCHANGED <<account_log, characters, now, apiKey, reqs>>

ExtInsertLog ==
    /\ writes < MaxWrites
    /\ \E i \in 1..MaxRows :
          /\ LogRow(i) \notin account_log
          /\ account_log' = account_log \cup {LogRow(i)}
    /\ writes' = writes + 1
    /\ UNCHANGED <<hist, accounts, characters, now, apiKey, reqs>>

ExtDeleteLog ==
    /\ writes < MaxWrites
    /\ \E e \in account_log : account_log' = account_log \ {e}
    /\ writes' = writes + 1
    /\ UNCHANGED <<hist, accounts, characters, now, apiKey, reqs>>

ExtInsertCharacter ==
    /\ writes < MaxWrites
    /\ \E i \in 1..MaxRows :
          /\ \A c \in characters : c.obj_Id # CharacterRow(i).obj_Id
          /\ characters' = characters \cup {CharacterRow(i)}
    /\ writes' = writes + 1
    /\ UNCHANGED <<hist, accounts, account_log, now, apiKey, reqs>>

ExtDeleteCharacter ==
    /\ writes < MaxWrites
    /\ \E c \in characters : characters' = characters \ {c}
    /\ writes' = writes + 1
    /\ UNCHANGED <<hist, accounts, account_log, now, apiKey, reqs>>

\* the game server marks a character deleted
ExtUpdateCharacter ==
    /\ writes < MaxWrites
    /\ \E c \in characters :
          /\ c.deletetime = 0
          /\ characters' = (characters \ {c}) \cup {[c EXCEPT !.deletetime = now]}
    /\ writes' = writes + 1
    /\ UNCHANGED <<hist, accounts, account_log, now, apiKey, reqs>>

ExtWrite ==
    \/ ExtInsertAccount \/ ExtDeleteAccount \/ ExtUpdateAccount
    \/ ExtInsertLog \/ ExtDeleteLog
    \/ ExtInsertCharacter \/ ExtDeleteCharacter \/ ExtUpdateCharacter

(***************************************************************************)
(* The list routes: one request at a time, with the writers.               *)
(***************************************************************************)
Next ==
    \/ Unauthorized(1)
    \/ ReceiveAccountList(1)
    \/ ReceiveCharacterList(1)
    \/ ReceiveAccountHistory(1)
    \/ ReceiveAccountCharacters(1)
    \/ DbExists(1)
    \/ DbCount(1)
    \/ DbData(1)
    \/ DbFail(1)
    \/ Reset(1)
    \/ Tick
    \/ ExtWrite

Spec == Init /\ [][Next]_vars


(***************************************************************************)
(* POST /api/login/account/register and accountsDb.create.                 *)
(***************************************************************************)
CsSecret(i) == <<"s", "e", "c", "r", "e", "t", Digits[i + 1]>>
NewLogin == UserLogin(MaxRows)

RegisterBodies ==
    {[login |-> Str(l), password |-> Str(CsSecret(i)), email |-> e] :
        l \in {UserLogin(1), NewLogin}, i \in 1..2,
        e \in {Undefined, Str(<<"a", "@", "x">>)}}
    \cup {[login |-> Undefined, password |-> Str(CsSecret(1)), email |-> Undefined],
          [login |-> Str(<<"a", "b", "c">>), password |-> Str(CsSecret(1)),
           email |-> Undefined],
          [login |-> Str(NewLogin), password |-> Str(<<"1", "2", "3", "4", "5">>),
           email |-> Undefined],
          [login |-> Num(7), password |-> Str(CsSecret(1)), email |-> Undefined]}

\* router.post("/register") up to `await accountsDb.exists(login)`
RegisterRoute(req) ==
    LET login == req.q.login
        password == req.q.password
    IN  IF ~Truthy(login) \/ ~Truthy(password) THEN Respond(req, 400, "Validation")
        ELSE IF login.t = "string" /\ (Len(login.s) < 4 \/ Len(login.s) > 32)
             THEN Respond(req, 400, "Validation")
        ELSE IF password.t = "string" /\ (Len(password.s) < 6 \/ Len(password.s) > 32)
             THEN Respond(req, 400, "Validation")
        ELSE [req EXCEPT !.pc = "exists", !.login = JsString(login)]

ReceiveRegister(r) ==
    /\ reqs[r].pc = "idle"
    /\ \E hdr \in Headers, body \in RegisterBodies :
          /\ apiKeyMiddleware(hdr, apiKey)
          /\ reqs' = [reqs EXCEPT ![r] = RegisterRoute(NewReq("register", hdr, body, <<>>))]
    /\ UNCHANGED <<hist, accounts, account_log, characters, now, writes, apiKey>>

\* the stored procedure lip_AccountCreate: a new row of that login and
\* password hash, access level 0 and no last-active value
lip_AccountCreate(login, passwordHash) ==
    [login |-> login, password |-> passwordHash, accessLevel |-> 0,
     lastactive |-> SqlNull, lastIP |-> <<>>, lastHWID |-> <<>>,
     lastServerId |-> 0, ban_expire |-> 0, l2email |-> <<>>]

\* the stored procedure lip_AccountUpdate: the row of that login with every
\* column whose argument is not NULL overwritten
lip_AccountUpdate(a, args) ==
    [a EXCEPT !.password = IF Truthy(args.password) THEN args.password.s ELSE @,
              !.accessLevel = IF IsInt(args.accessLevel) THEN args.accessLevel.v ELSE @,
              !.lastServerId = IF IsInt(args.lastServerId) THEN args.lastServerId.v ELSE @,
              !.lastIP = IF Truthy(args.lastIP) THEN args.lastIP.s ELSE @,
              !.lastHWID = IF Truthy(args.lastHWID) THEN args.lastHWID.s ELSE @,
              !.lastactive = IF IsInt(args.lastactive) THEN args.lastactive.v ELSE @,
              !.l2email = IF Truthy(args.email) THEN args.email.s ELSE @]

\* accessLevel defaulting to 0
accountsDb_update_accessLevelZero(updateData) ==
    [password |-> updateData.password,
     accessLevel |-> Default(updateData.accessLevel, Num(0)),
     lastServerId |-> Default(updateData.lastServerId, JsNull),
     lastIP |-> Default(updateData.lastIP, JsNull),
     lastHWID |-> Default(updateData.lastHWID, JsNull),
     lastactive |-> Default(updateData.lastactive, JsNull),
     email |-> Default(updateData.email, JsNull)]

\* accountsDb.update: the replacements of CALL lip_AccountUpdate
accountsDb_update(updateData) ==
    [password |-> updateData.password,
     accessLevel |-> Default(updateData.accessLevel, JsNull),
     lastServerId |-> Default(updateData.lastServerId, JsNull),
     lastIP |-> Default(updateData.lastIP, JsNull),
     lastHWID |-> Default(updateData.lastHWID, JsNull),
     lastactive |-> Default(updateData.lastactive, JsNull),
     email |-> Default(updateData.email, JsNull)]

\* the access level set to 1
accountsDb_create_accessLevelOne(passwordHash, email) ==
    [password |-> Str(passwordHash), accessLevel |-> Num(1),
     lastServerId |-> Undefined, lastIP |-> Undefined, lastHWID |-> Undefined,
     lastactive |-> JsNull, email |-> Default(email, JsNull)]

\* the updateData accountsDb.create passes to accountsDb.update
accountsDb_create(passwordHash, email) ==
    [password |-> Str(passwordHash), accessLevel |-> Num(0),
     lastServerId |-> Undefined, lastIP |-> Undefined, lastHWID |-> Undefined,
     lastactive |-> JsNull, email |-> Default(email, JsNull)]

\* the server runs CALL lip_AccountCreate of accountsDb.create: a duplicate
\* login is an error, which create rethrows and the route answers 500
DbCreate(r) ==
    /\ reqs[r].pc = "create"
    /\ LET req == [reqs[r] EXCEPT !.nq = @ + 1]
       IN  IF accountsDb_exists(req.login)
           THEN /\ reqs' = [reqs EXCEPT ![r] = Respond(req, 500, "DuplicateEntry")]
                /\ UNCHANGED <<accounts, hist>>
           ELSE /\ accounts' = accounts \cup {lip_AccountCreate(req.login, req.hash)}
                /\ hist' = Mark(hist, req.login, "create", 0)
                /\ reqs' = [reqs EXCEPT ![r] = [req EXCEPT !.pc = "update"]]
    /\ UNCHANGED <<account_log, characters, now, writes, apiKey>>

\* the server runs CALL lip_AccountUpdate of accountsDb.create, and the
\* route answers 201
DbUpdate(r) ==
    /\ reqs[r].pc = "update"
    /\ LET req == [reqs[r] EXCEPT !.nq = @ + 1]
           args == accountsDb_update(accountsDb_create(req.hash, req.q.email))
       IN  /\ accounts' = {IF a.login = req.login THEN lip_AccountUpdate(a, args) ELSE a :
                              a \in accounts}
           /\ hist' = IF accountsDb_exists(req.login)
                       THEN Mark(hist, req.login,
                                 IF req.q.email = Undefined THEN "register"
                                 ELSE "registerEmail", 0)
                       ELSE hist
           /\ reqs' = [reqs EXCEPT ![r] = Respond(req, 201, "")]
    /\ UNCHANGED <<account_log, characters, now, writes, apiKey>>

(***************************************************************************)
(* GET /api/login/account/{login}, PUT /change-password and                *)
(* DELETE /api/login/account/{login}.                                      *)
(***************************************************************************)
\* logins a path parameter of the account routes names
AdminLogins == {UserLogin(1), NewLogin, <<"n", "o", "n", "e">>}

\* GET /api/login/account/{login}: issues accountsDb.load
ReceiveLoad(r) ==
    /\ reqs[r].pc = "idle"
    /\ \E hdr \in Headers, login \in AdminLogins :
          /\ apiKeyMiddleware(hdr, apiKey)
          /\ reqs' = [reqs EXCEPT ![r] =
                         [NewReq("load", hdr, NoQuery, login) EXCEPT !.pc = "load"]]
    /\ UNCHANGED <<hist, accounts, account_log, characters, now, writes, apiKey>>

\* the stored procedure lip_AccountLoad: the rows of that login
lip_AccountLoad(login) == {a \in accounts : a.login = login}

\* the server answers CALL lip_AccountLoad of accountsDb.load; the route
\* answers 404 or issues SELECT ban_expire
DbLoad(r) ==
    /\ reqs[r].pc = "load"
    /\ LET req == [reqs[r] EXCEPT !.nq = @ + 1]
           results == lip_AccountLoad(req.login)
       IN  IF results = {}
           THEN reqs' = [reqs EXCEPT ![r] = Respond(req, 404, "NotFound")]
           ELSE \E account \in results :
                   reqs' = [reqs EXCEPT ![r] =
                               [req EXCEPT !.pc = "banExpire", !.rows = <<account>>]]
    /\ UNCHANGED <<hist, accounts, account_log, characters, now, writes, apiKey>>

\* accountInfo of router.get("/:login"): details is the set of rows that
\* SELECT ban_expire returned, clock the value of Date.now() / 1000
AccountInfo(account, details, clock) ==
    LET isBanned == IF details = {} THEN Undefined
                    ELSE JsBool(\E d \in details : d.ban_expire > clock)
    IN  [lastactiveDate |-> DateOrNull(account.lastactive),
         isBanned |-> isBanned,
         banExpireDate |-> IF Truthy(isBanned)
                           THEN toISOString((CHOOSE d \in details : TRUE).ban_expire)
                           ELSE JsNull]
        @@ account

\* the server answers SELECT ban_expire; the route sends accountInfo
DbBanExpire(r) ==
    /\ reqs[r].pc = "banExpire"
    /\ LET req == [reqs[r] EXCEPT !.nq = @ + 1]
           details == {a \in accounts : a.login = req.login}
       IN  reqs' = [reqs EXCEPT ![r] =
               [Respond(req, 200, "") EXCEPT
                   !.clock = now,
                   !.rows = <<AccountInfo(req.rows[1], details, now)>>]]
    /\ UNCHANGED <<hist, accounts, account_log, characters, now, writes, apiKey>>

ChangePasswordBodies ==
    {[login |-> Str(l), newPassword |-> Str(CsSecret(2))] : l \in AdminLogins}
    \cup {[login |-> Undefined, newPassword |-> Str(CsSecret(2))],
          [login |-> Str(UserLogin(1)), newPassword |-> Undefined],
          [login |-> Str(UserLogin(1)),
           newPassword |-> Str(<<"1", "2", "3", "4", "5">>)]}

\* router.put("/change-password") up to `await accountsDb.exists(login)`
ChangePasswordRoute(req) ==
    LET login == req.q.login
        newPassword == req.q.newPassword
    IN  IF ~Truthy(login) \/ ~Truthy(newPassword) THEN Respond(req, 400, "Validation")
        ELSE IF newPassword.t = "string"
                /\ (Len(newPassword.s) < 6 \/ Len(newPassword.s) > 32)
             THEN Respond(req, 400, "Validation")
        ELSE [req EXCEPT !.pc = "exists", !.login = JsString(login)]

ReceiveChangePassword(r) ==
    /\ reqs[r].pc = "idle"
    /\ \E hdr \in Headers, body \in ChangePasswordBodies :
          /\ apiKeyMiddleware(hdr, apiKey)
          /\ reqs' = [reqs EXCEPT ![r] =
                         ChangePasswordRoute(NewReq("changePassword", hdr, body, <<>>))]
    /\ UNCHANGED <<hist, accounts, account_log, characters, now, writes, apiKey>>

\* the updateData router.put("/change-password") passes to accountsDb.update
ChangePasswordData(hashedNewPassword) ==
    [password |-> Str(hashedNewPassword), accessLevel |-> Undefined,
     lastServerId |-> Undefined, lastIP |-> Undefined, lastHWID |-> Undefined,
     lastactive |-> Undefined, email |-> Undefined]

\* the server runs CALL lip_AccountUpdate of accountsDb.update, and the
\* route answers 200
DbPasswordUpdate(r) ==
    /\ reqs[r].pc = "passwordUpdate"
    /\ LET req == [reqs[r] EXCEPT !.nq = @ + 1]
           args == accountsDb_update(ChangePasswordData(req.hash))
       IN  /\ accounts' = {IF a.login = req.login THEN lip_AccountUpdate(a, args) ELSE a :
                              a \in accounts}
           /\ hist' = IF accountsDb_exists(req.login)
                      THEN Mark(hist, req.login, "password", 0) ELSE hist
           /\ reqs' = [reqs EXCEPT ![r] = Respond(req, 200, "")]
    /\ UNCHANGED <<account_log, characters, now, writes, apiKey>>

\* DELETE /api/login/account/{login}: issues accountsDb.exists
ReceiveDelete(r) ==
    /\ reqs[r].pc = "idle"
    /\ \E hdr \in Headers, login \in AdminLogins :
          /\ apiKeyMiddleware(hdr, apiKey)
          /\ reqs' = [reqs EXCEPT ![r] =
                         [NewReq("delete", hdr, NoQuery, login) EXCEPT
                             !.pc = "exists",
                             !.before = [accounts |-> lip_AccountLoad(login),
                                         account_log |->
                                             {e \in account_log : e.login = login}]]]
    /\ UNCHANGED <<hist, accounts, account_log, characters, now, writes, apiKey>>

\* the server runs DELETE FROM accounts WHERE login = ?
DbDeleteAccount(r) ==
    /\ reqs[r].pc = "deleteAccount"
    /\ accounts' = {a \in accounts : a.login # reqs[r].login}
    /\ hist' = IF accountsDb_exists(reqs[r].login)
               THEN Mark(hist, reqs[r].login, "delete", 0) ELSE hist
    /\ reqs' = [reqs EXCEPT ![r] = [@ EXCEPT !.pc = "deleteLog", !.nq = @ + 1]]
    /\ UNCHANGED <<account_log, characters, now, writes, apiKey>>

\* the server runs DELETE FROM account_log WHERE login = ?, and the route
\* answers 200
DbDeleteLog(r) ==
    /\ reqs[r].pc = "deleteLog"
    /\ account_log' = {e \in account_log : e.login # reqs[r].login}
    /\ reqs' = [reqs EXCEPT ![r] = Respond([@ EXCEPT !.nq = @ + 1], 200, "")]
    /\ UNCHANGED <<hist, accounts, characters, now, writes, apiKey>>

(***************************************************************************)
(* POST /api/login/account/{login}/ban and /unban.                         *)
(***************************************************************************)
\* the default of limit in getAccounts
DefaultLimit == 10

\* accounts a00, a01, ...: a00 is not banned, the others are banned for long
BanSeedLogin(i) == <<"a", Digits[(i \div 10) + 1], Digits[(i % 10) + 1]>>
BanSeedRow(i) ==
    [AccountRow(2) EXCEPT !.login = BanSeedLogin(i),
                          !.ban_expire = IF i = 0 THEN 0 ELSE 2 * 86400]

BanLogins == {BanSeedLogin(0), UserLogin(1), <<"n", "o", "n", "e">>}
BanBodies ==
    {[banExpire |-> b] :
        b \in {Undefined, Str(<<>>), Str(<<"a", "b", "c">>),
               Str(<<"1", "9", "7", "0", "-", "0", "1", "-", "0", "1">>),
               Str(<<"1", "9", "7", "0", "-", "0", "1", "-", "0", "2">>),
               Num(1000), Num(3000)}}

\* router.post("/:login/ban") up to `await accountsDb.exists(login)`
ReceiveBan(r) ==
    /\ reqs[r].pc = "idle"
    /\ \E hdr \in Headers, body \in BanBodies, login \in BanLogins :
          /\ apiKeyMiddleware(hdr, apiKey)
          /\ reqs' = [reqs EXCEPT ![r] =
                         LET req == NewReq("ban", hdr, body, login)
                         IN  IF ~Truthy(body.banExpire)
                             THEN Respond(req, 400, "Validation")
                             ELSE [req EXCEPT !.pc = "exists"]]
    /\ UNCHANGED <<hist, accounts, account_log, characters, now, writes, apiKey>>

\* the row written to the wrong column
BanStatement_lastactive(a, banExpireTimestamp) ==
    [a EXCEPT !.lastactive = banExpireTimestamp]

\* UPDATE accounts SET ban_expire = ? on a row of that login
BanStatement(a, banExpireTimestamp) == [a EXCEPT !.ban_expire = banExpireTimestamp]

\* the server runs UPDATE accounts SET ban_expire = ? WHERE login = ?: a NaN
\* timestamp is no value of SQL and the statement fails; otherwise the
\* route answers 200
DbBanUpdate(r) ==
    /\ reqs[r].pc = "banUpdate"
    /\ LET req == [reqs[r] EXCEPT !.nq = @ + 1]
           ts == req.banExpireTimestamp
       IN  IF Rejected(<<ts>>, Num(0), Num(0))
           THEN /\ reqs' = [reqs EXCEPT ![r] = Respond(req, 500, "SqlError")]
                /\ UNCHANGED <<accounts, hist>>
           ELSE /\ accounts' = {IF a.login = req.login THEN BanStatement(a, ts.v) ELSE a :
                                   a \in accounts}
                /\ hist' = IF accountsDb_exists(req.login)
                           THEN Mark(hist, req.login, "ban", ts.v) ELSE hist
                /\ reqs' = [reqs EXCEPT ![r] = Respond(req, 200, "")]
    /\ UNCHANGED <<account_log, characters, now, writes, apiKey>>

\* POST /api/login/account/{login}/unban: issues accountsDb.exists
ReceiveUnban(r) ==
    /\ reqs[r].pc = "idle"
    /\ \E hdr \in Headers, login \in BanLogins :
          /\ apiKeyMiddleware(hdr, apiKey)
          /\ reqs' = [reqs EXCEPT ![r] =
                         [NewReq("unban", hdr, NoQuery, login) EXCEPT !.pc = "exists"]]
    /\ UNCHANGED <<hist, accounts, account_log, characters, now, writes, apiKey>>

\* a ban toggled in place of a ban lifted
UnbanStatement_toggle(a) == [a EXCEPT !.ban_expire = IF @ = 0 THEN 1 ELSE 0]

\* UPDATE accounts SET ban_expire = 0 on a row of that login
UnbanStatement(a) == [a EXCEPT !.ban_expire = 0]

\* the last write to the account of that login was an unban
Unbanned(h, login) ==
    \E e \in h : e.login = login /\ e.op \in {"unban", "unbanAgain"}

\* the server runs UPDATE accounts SET ban_expire = 0 WHERE login = ?, and
\* the route answers 200
DbUnbanUpdate(r) ==
    /\ reqs[r].pc = "unbanUpdate"
    /\ accounts' = {IF a.login = reqs[r].login THEN UnbanStatement(a) ELSE a :
                       a \in accounts}
    /\ hist' = IF accountsDb_exists(reqs[r].login)
               THEN Mark(hist, reqs[r].login,
                         IF Unbanned(hist, reqs[r].login) THEN "unbanAgain" ELSE "unban", 0)
               ELSE hist
    /\ reqs' = [reqs EXCEPT ![r] = Respond([@ EXCEPT !.nq = @ + 1], 200, "")]
    /\ UNCHANGED <<account_log, characters, now, writes, apiKey>>

\* GET /api/login/account/list?isBanned=true, first or second page
BannedListQueries ==
    {[BaseAccountQuery EXCEPT !.isBanned = Str(CsTrue), !.page = p] :
        p \in {Undefined, Str(<<"2">>)}}

ReceiveBannedList(r) ==
    /\ reqs[r].pc = "idle"
    /\ \E hdr \in Headers, q \in BannedListQueries :
          /\ apiKeyMiddleware(hdr, apiKey)
          /\ reqs' = [reqs EXCEPT ![r] =
                         AccountListRoute(NewReq("accountList", hdr, q, <<>>), now)]
    /\ UNCHANGED <<hist, accounts, account_log, characters, now, writes, apiKey>>

(***************************************************************************)
(* The ban routes: one request at a time on a table of DefaultLimit banned *)
(* accounts and two accounts that are not banned.                          *)
(***************************************************************************)
InitBan ==
    /\ accounts = {BanSeedRow(i) : i \in 0..DefaultLimit} \cup {AccountRow(1)}
    /\ account_log = {LogRow(i) : i \in 1..(MaxRows - 1)}
    /\ characters = {CharacterRow(i) : i \in 1..(MaxRows - 1)}
    /\ now = 1
    /\ writes = 0
    /\ apiKey \in ApiKeys
    /\ reqs = [r \in Slots |-> IdleReq]
    /\ hist = {}

NextBan ==
    \/ Unauthorized(1)
    \/ ReceiveBan(1)
    \/ ReceiveUnban(1)
    \/ ReceiveBannedList(1)
    \/ DbExists(1)
    \/ DbBanUpdate(1)
    \/ DbUnbanUpdate(1)
    \/ DbCount(1)
    \/ DbData(1)
    \/ DbFail(1)
    \/ Reset(1)
    \/ Tick

SpecBan == InitBan /\ [][NextBan]_vars

(***************************************************************************)
(* The account administration routes: one request at a time.               *)
(***************************************************************************)
NextAdmin ==
    \/ Unauthorized(1)
    \/ ReceiveRegister(1)
    \/ ReceiveLoad(1)
    \/ ReceiveChangePassword(1)
    \/ ReceiveDelete(1)
    \/ DbExists(1)
    \/ DbCreate(1)
    \/ DbUpdate(1)
    \/ DbLoad(1)
    \/ DbBanExpire(1)
    \/ DbPasswordUpdate(1)
    \/ DbDeleteAccount(1)
    \/ DbDeleteLog(1)
    \/ DbFail(1)
    \/ Reset(1)

SpecAdmin == Init /\ [][NextAdmin]_vars

(***************************************************************************)
(* The account routes: MaxReq concurrent requests.                         *)
(***************************************************************************)
NextAcct ==
    \E r \in Slots :
        \/ Unauthorized(r)
        \/ ReceiveRegister(r)
        \/ DbExists(r)
        \/ DbCreate(r)
        \/ DbUpdate(r)
        \/ DbFail(r)
        \/ Reset(r)

SpecAcct == Init /\ [][NextAcct]_vars

(***************************************************************************)
(* GET /api/game/characters/{segment}: the routes of one path segment       *)
(* under /api/game/characters, and the routes they reach.                   *)
(***************************************************************************)
CsStats == <<"s", "t", "a", "t", "s">>
CsList == <<"l", "i", "s", "t">>
CsCharactersStats ==
    <<"c", "h", "a", "r", "a", "c", "t", "e", "r", "s", "-">> \o CsStats

\* the routes that match a path of one segment, in the order Express tries
\* them: the loader mounts the files of the directory characters first
\* (characters-stats answers on its "/"), then the router whose routes are
\* registered in the order /list, /:charId, /stats
CharactersRoutes ==
    <<[segment |-> CsCharactersStats, param |-> FALSE, handler |-> "stats"],
      [segment |-> CsList, param |-> FALSE, handler |-> "list"],
      [segment |-> <<>>, param |-> TRUE, handler |-> "charId"],
      [segment |-> CsStats, param |-> FALSE, handler |-> "stats"]>>

\* a route matches a segment when it is a parameter or that very literal
RouteMatches(route, segment) == route.param \/ route.segment = segment

\* Express runs the handler of the first route that matches
Dispatch(routes, segment) ==
    routes[CHOOSE i \in 1..Len(routes) :
              /\ RouteMatches(routes[i], segment)
              /\ \A j \in 1..(i - 1) : ~RouteMatches(routes[j], segment)].handler

\* the properties of the object charactersDb
charactersDb_operations ==
    {"exists", "existsById", "loadByName", "loadById", "enrichCharacterData",
     "getCharacters", "getAccountCharacters"}

\* switch (type) of the stats handler: the operation it calls
StatsOperation(type) ==
    CASE type = Str(<<"t", "o", "t", "a", "l">>) -> "getTotalStats"
      [] type = Str(<<"o", "n", "l", "i", "n", "e">>) -> "getOnlineStats"
      [] type = Str(<<"b", "y", "_", "c", "l", "a", "s", "s">>) -> "getCharactersByClass"
      [] type = Str(<<"b", "y", "_", "c", "l", "a", "n">>) -> "getCharactersByClan"
      [] type = Str(<<"b", "y", "_", "l", "e", "v", "e", "l">>) -> "getCharactersByLevel"
      [] OTHER -> "getTotalStats"

\* the stats handler: charactersDb has no property of that name, the call
\* throws a TypeError and the catch block answers 500
StatsRoute(req) ==
    LET op == StatsOperation(req.q.type)
    IN  IF op \notin charactersDb_operations
        THEN Respond([req EXCEPT !.op = op], 500, "TypeError")
        ELSE [req EXCEPT !.op = op, !.pc = "count"]

\* router.get("/:charId") up to `await charactersDb.loadById(objId)`
CharIdRoute(req) ==
    LET objId == parseInt(Str(req.login))
    IN  IF ~IsInt(objId)
        THEN Respond([req EXCEPT !.objId = objId], 400, "Validation")
        ELSE [req EXCEPT !.pc = "loadById", !.op = "loadById", !.objId = objId]

\* the router of /api/game/characters on a path of one segment
CharactersRouter(req) ==
    LET handler == Dispatch(CharactersRoutes, req.login)
        routed == [req EXCEPT !.handler = handler]
    IN  CASE handler = "stats" -> StatsRoute(routed)
          [] handler = "list" -> CharacterListRoute(routed)
          [] OTHER -> CharIdRoute(routed)

CharacterSegments ==
    {<<"1", "0", "1">>, <<"1", "0", "2">>, <<"1", "0", "3">>,
     <<"1", "0", "1", "a", "b", "c">>, <<"a", "b", "c">>, <<"-", "1">>,
     CsStats, CsList, CsCharactersStats}

StatsTypes ==
    {Undefined, Str(<<"t", "o", "t", "a", "l">>), Str(<<"o", "n", "l", "i", "n", "e">>),
     Str(<<"b", "y", "_", "c", "l", "a", "s", "s">>),
     Str(<<"b", "y", "_", "c", "l", "a", "n">>),
     Str(<<"b", "y", "_", "l", "e", "v", "e", "l">>)}

\* GET /api/game/characters/{segment}?type={type}
ReceiveCharacterPath(r) ==
    /\ reqs[r].pc = "idle"
    /\ \E hdr \in Headers, segment \in CharacterSegments, type \in StatsTypes :
          /\ apiKeyMiddleware(hdr, apiKey)
          /\ reqs' = [reqs EXCEPT ![r] =
                         CharactersRouter(NewReq("characters", hdr,
                             [type |-> type] @@ BaseCharacterQuery, segment))]
    /\ UNCHANGED <<hist, accounts, account_log, characters, now, writes, apiKey>>

\* SELECT * FROM characters WHERE obj_Id = ? AND deletetime = 0
charactersDb_loadById(objId) ==
    {c \in characters : c.obj_Id = objId /\ c.deletetime = 0}

\* the server answers the query of loadById: the route answers 404 when no
\* row came back and the enriched first row otherwise
DbLoadById(r) ==
    /\ reqs[r].pc = "loadById"
    /\ LET req == [reqs[r] EXCEPT !.nq = @ + 1]
           found == charactersDb_loadById(req.objId.v)
       IN  IF found = {}
           THEN reqs' = [reqs EXCEPT ![r] = Respond(req, 404, "NotFound")]
           ELSE \E character \in found :
                   reqs' = [reqs EXCEPT ![r] =
                       [Respond(req, 200, "") EXCEPT
                           !.rows = <<enrichCharacterData(character)>>]]
    /\ UNCHANGED <<hist, accounts, account_log, characters, now, writes, apiKey>>

(***************************************************************************)
(* The character routes of one path segment: one request at a time, with   *)
(* the game server writing the table of characters.                        *)
(***************************************************************************)
NextChar ==
    \/ Unauthorized(1)
    \/ ReceiveCharacterPath(1)
    \/ DbLoadById(1)
    \/ DbCount(1)
    \/ DbData(1)
    \/ DbFail(1)
    \/ Reset(1)
    \/ ExtInsertCharacter
    \/ ExtDeleteCharacter
    \/ ExtUpdateCharacter

SpecChar == Init /\ [][NextChar]_vars

(***************************************************************************)
(* The list routes on the filter inputs: every flag, number and date       *)
(* filter with the raw values a query string can carry.                    *)
(***************************************************************************)
ClauseFlags ==
    {Undefined, Str(CsTrue), Str(<<"f", "a", "l", "s", "e">>),
     Str(<<"T", "R", "U", "E">>), Str(<<"1">>), Str(<<>>)}
ClauseNumbers == {Undefined, Str(<<"1">>), Str(<<"a", "b", "c">>), Str(<<>>)}
ClauseDates ==
    {Undefined, Str(<<"1", "9", "7", "0", "-", "0", "1", "-", "0", "2">>),
     Str(<<"1", "9", "7", "0", "-", "0", "1", "-", "0", "1">>),
     Str(<<"0">>), Str(<<"5">>), Str(<<"a", "b", "c">>)}

AccountFilterQueries ==
    {[BaseAccountQuery EXCEPT !.login = lg, !.lastServerId = ls,
                              !.accessLevel = al, !.isBanned = ib] :
        lg \in {Undefined, Str(<<"r", "2">>)}, ls \in ClauseNumbers,
        al \in ClauseNumbers, ib \in ClauseFlags}
    \cup {[BaseAccountQuery EXCEPT !.email = em, !.lastActiveFrom = lf,
                                   !.lastActiveTo = lt, !.isBanned = ib] :
            em \in {Undefined, Str(<<"@">>)}, lf \in ClauseDates,
            lt \in ClauseDates, ib \in {Undefined, Str(CsTrue)}}
    \cup {[BaseAccountQuery EXCEPT !.login = Str(<<"u">>), !.email = Str(<<"@">>),
                                   !.lastIP = Str(<<"1", "0">>),
                                   !.lastHWID = Str(<<"h", "w">>),
                                   !.lastServerId = Str(<<"1">>),
                                   !.accessLevel = Str(<<"1">>),
                                   !.lastActiveFrom = Str(<<"5">>),
                                   !.lastActiveTo = Str(<<"7">>),
                                   !.isBanned = Str(CsTrue)]}

CharacterFilterQueries ==
    {[BaseCharacterQuery EXCEPT !.char_name = cn, !.clanid = cl, !.online = on,
                                !.sex = sx, !.deletedOnly = dl] :
        cn \in {Undefined, Str(<<"c">>)}, cl \in ClauseNumbers,
        on \in ClauseFlags, sx \in ClauseNumbers, dl \in ClauseFlags}
    \cup {[BaseCharacterQuery EXCEPT !.minLevel = mn, !.maxLevel = mx] :
            mn \in ClauseNumbers, mx \in ClauseNumbers}
    \cup {[BaseCharacterQuery EXCEPT !.createdAfter = ca, !.createdBefore = cb] :
            ca \in ClauseDates, cb \in ClauseDates}
    \cup {[BaseCharacterQuery EXCEPT !.lastAccessAfter = la, !.lastAccessBefore = lb] :
            la \in ClauseDates, lb \in ClauseDates}
    \cup {[BaseCharacterQuery EXCEPT !.char_name = Str(<<"c">>),
                                     !.account_name = Str(<<"u">>),
                                     !.clanid = Str(<<"1">>), !.online = Str(CsTrue),
                                     !.minLevel = Str(<<"1">>),
                                     !.maxLevel = Str(<<"9">>),
                                     !.createdAfter = Str(<<"1">>),
                                     !.createdBefore = Str(<<"9">>),
                                     !.lastAccessAfter = Str(<<"1">>),
                                     !.lastAccessBefore = Str(<<"9">>),
                                     !.sex = Str(<<"1">>),
                                     !.deletedOnly = Str(<<"f", "a", "l", "s", "e">>)]}

\* GET /api/login/account/list with filters
ReceiveAccountFilters(r) ==
    /\ reqs[r].pc = "idle"
    /\ \E hdr \in Headers, q \in AccountFilterQueries :
          /\ apiKeyMiddleware(hdr, apiKey)
          /\ reqs' = [reqs EXCEPT ![r] =
                         AccountListRoute(NewReq("accountList", hdr, q, <<>>), now)]
    /\ UNCHANGED <<hist, accounts, account_log, characters, now, writes, apiKey>>

\* GET /api/game/characters/list with filters
ReceiveCharacterFilters(r) ==
    /\ reqs[r].pc = "idle"
    /\ \E hdr \in Headers, q \in CharacterFilterQueries :
          /\ apiKeyMiddleware(hdr, apiKey)
          /\ reqs' = [reqs EXCEPT ![r] =
                         CharacterListRoute(NewReq("characterList", hdr, q, <<>>))]
    /\ UNCHANGED <<hist, accounts, account_log, characters, now, writes, apiKey>>

NextClause ==
    \/ Unauthorized(1)
    \/ ReceiveAccountFilters(1)
    \/ ReceiveCharacterFilters(1)
    \/ DbCount(1)
    \/ DbData(1)
    \/ DbFail(1)
    \/ Reset(1)
    \/ Tick

SpecClause == Init /\ [][NextClause]_vars

(***************************************************************************)
(* The routes of one account against a concurrent DELETE: the first        *)
(* request reads or writes an account, the second deletes one.             *)
(***************************************************************************)
NextRace ==
    \/ Unauthorized(1)
    \/ ReceiveLoad(1)
    \/ ReceiveBan(1)
    \/ ReceiveUnban(1)
    \/ ReceiveChangePassword(1)
    \/ DbLoad(1)
    \/ DbBanExpire(1)
    \/ DbBanUpdate(1)
    \/ DbUnbanUpdate(1)
    \/ DbPasswordUpdate(1)
    \/ ReceiveDelete(2)
    \/ DbDeleteAccount(2)
    \/ DbDeleteLog(2)
    \/ \E r \in {1, 2} : DbExists(r) \/ DbFail(r) \/ Reset(r)

SpecRace == Init /\ [][NextRace]_vars

(***************************************************************************)
(* Properties of the list routes.                                          *)
(***************************************************************************)
ListOps ==
    {"getAccounts", "getAccountLoginHistory", "getCharacters", "getAccountCharacters"}
PositiveInt(x) == IsInt(x) /\ x.v >= 1
\* a list operation called with integer page >= 1 and limit >= 1 returned
Returned(req) ==
    /\ req.pc = "done" /\ req.status = 200 /\ req.op \in ListOps
    /\ PositiveInt(req.page) /\ PositiveInt(req.limit)

\* C1: for every list call with integer page >= 1 and limit >= 1,
\* pagination.totalPages is the least integer n with n * limit >= total,
\* where pagination.total is the value the count query returned
C1_TotalPagesIsCeil ==
    \A r \in Slots :
        Returned(reqs[r]) =>
            LET pg == reqs[r].pagination
            IN  /\ pg.total = reqs[r].total
                /\ IsInt(pg.total) /\ IsInt(pg.totalPages)
                /\ pg.totalPages.v * reqs[r].limit.v >= pg.total.v
                /\ (pg.totalPages.v - 1) * reqs[r].limit.v < pg.total.v

\* a call whose total is more than one page and not a whole number of pages
C1_Witness ==
    \E r \in Slots :
        /\ Returned(reqs[r])
        /\ reqs[r].total.v > reqs[r].limit.v
        /\ reqs[r].total.v % reqs[r].limit.v # 0

\* the predicate values of a data query: its replacements without the
\* trailing limit and offset
PredicateValues(dq) == SubSeq(dq.repl, 1, Len(dq.repl) - 2)
\* x comes strictly before y under ORDER BY field dir
StrictlyBefore(x, y, field, dir) ==
    IF dir = "ASC" THEN KeyLeq(x, y, field) /\ ~KeyLeq(y, x, field)
    ELSE KeyLeq(y, x, field) /\ ~KeyLeq(x, y, field)
NotAfter(x, y, field, dir) ==
    IF dir = "ASC" THEN KeyLeq(x, y, field) ELSE KeyLeq(y, x, field)
Max(a, b) == IF a >= b THEN a ELSE b

\* C2: when a list call with integer page >= 1 and limit >= 1 gets its rows,
\* it returns at most limit rows, and its i-th row is a row of the filtered
\* table that stands at position (page-1)*limit + i of the sort order: fewer
\* than that many rows come strictly before it and at least that many come
\* not after it; no row is returned twice and none is missing
C2_PageRows ==
    [][\A r \in Slots :
          (reqs[r].pc = "data" /\ Returned(reqs'[r])) =>
              LET req == reqs'[r]
                  dq == req.dataQuery
                  sel == Selected(TableOf(req.op), dq.clause, PredicateValues(dq))
                  offset == (req.page.v - 1) * req.limit.v
              IN  /\ Len(req.rows) <= req.limit.v
                  /\ Len(req.rows) = Min(req.limit.v, Max(0, Cardinality(sel) - offset))
                  /\ \A i \in 1..Len(req.rows) :
                        \E row \in sel :
                            /\ \A c \in SelectList(req.op) : req.rows[i][c] = row[c]
                            /\ Cardinality({x \in sel : StrictlyBefore(x, row, dq.sortField, dq.order)})
                                  < offset + i
                            /\ Cardinality({x \in sel : NotAfter(x, row, dq.sortField, dq.order)})
                                  >= offset + i
                  /\ \A i, j \in 1..Len(req.rows) : i # j => req.rows[i] # req.rows[j]]_vars

\* the second page of size 1 returned with its one row
C2_Witness ==
    \E r \in Slots :
        /\ Returned(reqs[r])
        /\ reqs[r].page.v = 2 /\ reqs[r].limit.v = 1
        /\ Len(reqs[r].rows) = 1

\* C3: the count query and the data query of one list call have the same
\* WHERE clause, and the replacements of the data query are those of the
\* count query followed by limit and offset
C3_SamePredicates ==
    \A r \in Slots :
        (reqs[r].op \in ListOps /\ reqs[r].pc \in {"count", "data", "done"}
            /\ reqs[r].err # "TypeError") =>
            /\ reqs[r].dataQuery.clause = reqs[r].countQuery.clause
            /\ reqs[r].dataQuery.repl
                  = reqs[r].countQuery.repl \o <<reqs[r].limit, reqs[r].offset>>

\* an isBanned list whose data query is pending after the clock advanced
\* past the `now` bound in both queries
C3_Witness ==
    \E r \in Slots :
        /\ reqs[r].op = "getAccounts" /\ reqs[r].pc = "data"
        /\ reqs[r].q.isBanned = Str(CsTrue)
        /\ reqs[r].countQuery.repl # <<>>
        /\ reqs[r].countQuery.repl[Len(reqs[r].countQuery.repl)] = Num(1)
        /\ now > 1

\* C4 as stated: in every list response total >= number of rows returned,
\* whatever is written between the count query and the data query
C4_TotalCoversRows ==
    \A r \in Slots :
        (reqs[r].pc = "done" /\ reqs[r].status = 200 /\ reqs[r].op \in ListOps) =>
            reqs[r].pagination.total.v >= Len(reqs[r].rows)

\* C4 amended: in every list response total >= number of rows returned,
\* provided no row was written between the count query and the data query
C4_TotalCoversRowsWhenQuiet ==
    \A r \in Slots :
        (reqs[r].pc = "done" /\ reqs[r].status = 200 /\ reqs[r].op \in ListOps
            /\ reqs[r].wcount = reqs[r].wdata) =>
            reqs[r].pagination.total.v >= Len(reqs[r].rows)

\* a filtered list answered with rows and no write between its two queries
C4_Witness ==
    \E r \in Slots :
        /\ reqs[r].pc = "done" /\ reqs[r].status = 200 /\ reqs[r].op \in ListOps
        /\ reqs[r].wcount = reqs[r].wdata
        /\ reqs[r].countQuery.clause # <<>>
        /\ Len(reqs[r].rows) >= 1
        /\ reqs[r].pagination.total.v = Len(reqs[r].rows)

\* the raw value is absent, empty or has no leading integer
NonNumeric(raw) == raw = Undefined \/ raw.s = <<>> \/ parseInt(raw) = NaN

\* C5: for every raw page and limit of a list endpoint, the page and limit
\* the repository uses and reports are positive integers, 1 and 10 when the
\* raw value is absent or non-numeric
C5_PagingCoerced ==
    \A r \in Slots :
        reqs[r].op \in ListOps =>
            /\ PositiveInt(reqs[r].page) /\ PositiveInt(reqs[r].limit)
            /\ NonNumeric(reqs[r].q.page) => reqs[r].page = Num(1)
            /\ NonNumeric(reqs[r].q.limit) => reqs[r].limit = Num(10)
            /\ (reqs[r].pc = "done" /\ reqs[r].status = 200) =>
                  /\ PositiveInt(reqs[r].pagination.page)
                  /\ PositiveInt(reqs[r].pagination.limit)

\* C6: the OFFSET bound to the data query of a list endpoint is
\* (page-1)*limit and is an integer >= 0
C6_OffsetNonNegative ==
    \A r \in Slots :
        (reqs[r].op \in ListOps /\ reqs[r].pc = "data") =>
            LET bound == reqs[r].dataQuery.repl[Len(reqs[r].dataQuery.repl)]
            IN  /\ IsInt(bound) /\ bound.v >= 0
                /\ bound = JsMul(JsSub(reqs[r].page, Num(1)), reqs[r].limit)

C7_AccountAllowList ==
    {"login", "lastactive", "accessLevel", "lastIP", "lastHWID", "lastServerId",
     "ban_expire"}
C7_CharacterAllowList ==
    {"char_name", "account_name", "createtime", "lastAccess", "online", "clanid",
     "pvpkills", "pkkills", "karma", "onlinetime"}
\* the raw sortBy names the column f
Names(raw, f) == raw.t = "string" /\ raw.s = CsName[f]

\* C7: the column getAccounts and getCharacters write into ORDER BY is in
\* the allow-list of the entity: the column sortBy names when it names one
\* of the list, login (char_name) for every other sortBy; and no sortBy
\* makes the handler throw (the handler throws for a non-string sortOrder
\* only)
C7_SortFieldAllowed ==
    \A r \in Slots :
        reqs[r].op \in {"getAccounts", "getCharacters"} =>
            LET allow == IF reqs[r].op = "getAccounts" THEN C7_AccountAllowList
                         ELSE C7_CharacterAllowList
                fallback == IF reqs[r].op = "getAccounts" THEN "login" ELSE "char_name"
                raw == reqs[r].q.sortBy
                field == reqs[r].dataQuery.sortField
            IN  IF reqs[r].err = "TypeError" THEN reqs[r].q.sortOrder.t # "string"
                       /\ reqs[r].q.sortOrder # Undefined
                ELSE /\ field \in allow
                     /\ \A f \in allow : Names(raw, f) => field = f
                     /\ (~\E f \in allow : Names(raw, f)) => field = fallback

\* a list sorted by the default column although sortBy named another one
C7_Witness ==
    \E r \in Slots :
        /\ reqs[r].op = "getAccounts" /\ reqs[r].pc = "done" /\ reqs[r].status = 200
        /\ reqs[r].q.sortBy = Str(CsName.password)
        /\ reqs[r].dataQuery.sortField = "login"
        /\ Len(reqs[r].rows) >= 2

\* C8: for every sortOrder a client sends, string or not, the direction is
\* DESC when the value is "desc" in any letter case and ASC otherwise, and
\* the request does not fail because of the value
C8_SortOrderNeverFails ==
    \A r \in Slots :
        reqs[r].op \in {"getAccounts", "getCharacters"} =>
            /\ reqs[r].err # "TypeError"
            /\ reqs[r].dataQuery.order \in {"ASC", "DESC"}
            /\ reqs[r].dataQuery.order = "DESC" <=>
                  /\ reqs[r].q.sortOrder.t = "string"
                  /\ toLowerCase(reqs[r].q.sortOrder.s) = <<"d", "e", "s", "c">>

\* the header is present and equal to the configured secret
KeyMatches(hdr, secret) ==
    /\ hdr.t = "string" /\ hdr.s # <<>>
    /\ secret.t = "string" /\ secret.s = hdr.s

\* C9: a route handler runs and a query is issued only for a request whose
\* API-key header is present and equal to the configured secret; every
\* other request is answered 401 with the fixed body and nothing else
\* happens, also when no secret is configured
C9_ApiKeyRequired ==
    \A r \in Slots :
        reqs[r].pc # "idle" =>
            IF KeyMatches(reqs[r].hdr, apiKey)
            THEN reqs[r].status # 401 /\ reqs[r].route # ""
            ELSE /\ reqs[r].pc = "done" /\ reqs[r].status = 401
                 /\ reqs[r].err = "Unauthorized"
                 /\ reqs[r].route = "" /\ reqs[r].op = "" /\ reqs[r].nq = 0

\* a request without the header answered 401 while no secret is configured
C9_Witness ==
    \E r \in Slots :
        /\ apiKey = Undefined /\ reqs[r].hdr = Undefined
        /\ reqs[r].pc = "done" /\ reqs[r].status = 401


(***************************************************************************)
(* Properties of the account routes.                                       *)
(***************************************************************************)
\* a register request that passed validation and met no connection failure
Registered(req) ==
    /\ req.route = "register" /\ req.pc = "done"
    /\ req.status \notin {400, 401} /\ req.err # "DatabaseError"

\* C10: a register for a login that exists answers 409 and the account of
\* that login stays as it was; of two register requests for the same new
\* login at most one answers 201 and the other answers 409; the stored
\* account has the hash and email of the one that answered 201
C10_RegisterExclusive ==
    /\ \A i \in 1..(MaxRows - 1) : AccountRow(i) \in accounts
    /\ \A r \in Slots :
          Registered(reqs[r]) =>
              /\ reqs[r].status \in {201, 409}
              /\ reqs[r].status = 409 => accountsDb_exists(reqs[r].login)
    /\ \A r1, r2 \in Slots :
          (r1 # r2 /\ Registered(reqs[r1]) /\ Registered(reqs[r2])
              /\ reqs[r1].login = reqs[r2].login /\ reqs[r1].status = 201) =>
              /\ reqs[r2].status = 409
              /\ \E a \in accounts :
                    /\ a.login = reqs[r1].login
                    /\ a.password = defaultHash(reqs[r1].q.password.s)
                    /\ a.l2email = reqs[r1].q.email.s

\* login is a string of 4..32 characters and password one of 6..32
ValidRegistration(body) ==
    /\ body.login.t = "string" /\ Len(body.login.s) \in 4..32
    /\ body.password.t = "string" /\ Len(body.password.s) \in 6..32

\* C11: a register whose login is missing or not a string of length 4..32,
\* or whose password is missing or not a string of length 6..32, answers 400
\* and issues no query; a register that answers 201 had both in range
C11_RegisterValidation ==
    \A r \in Slots :
        (reqs[r].route = "register" /\ reqs[r].pc # "idle") =>
            /\ ~ValidRegistration(reqs[r].q) =>
                  /\ reqs[r].pc = "done" /\ reqs[r].status = 400
                  /\ reqs[r].nq = 0
            /\ reqs[r].status = 201 => ValidRegistration(reqs[r].q)

\* C12: a load of an account whose last write is a register without email
\* answers accessLevel 0 and lastactiveDate null
C12_CreateThenLoad ==
    \A r \in Slots :
        (reqs[r].route = "load" /\ reqs[r].pc = "done" /\ reqs[r].status = 200
            /\ [login |-> reqs[r].login, op |-> "register", v |-> 0] \in hist) =>
            /\ reqs[r].rows[1].accessLevel = 0
            /\ reqs[r].rows[1].lastactiveDate = JsNull

\* the new login registered without email, then loaded
C12_Witness ==
    \E r \in Slots :
        /\ reqs[r].route = "load" /\ reqs[r].pc = "done" /\ reqs[r].status = 200
        /\ reqs[r].login = NewLogin
        /\ [login |-> NewLogin, op |-> "register", v |-> 0] \in hist

\* C16: when a delete request has finished, whatever its status, the
\* account row and the account_log rows of its login are either all gone or
\* all as they were when the request arrived
C16_DeleteTogether ==
    \A r \in Slots :
        (reqs[r].route = "delete" /\ reqs[r].pc = "done") =>
            LET acc == lip_AccountLoad(reqs[r].login)
                log == {e \in account_log : e.login = reqs[r].login}
            IN  \/ acc = {} /\ log = {}
                \/ acc = reqs[r].before.accounts /\ log = reqs[r].before.account_log

BannedListDone(r) ==
    /\ reqs[r].route = "accountList" /\ reqs[r].pc = "done" /\ reqs[r].status = 200
    /\ reqs[r].q = [BaseAccountQuery EXCEPT !.isBanned = Str(CsTrue)]

ListedLogins(r) == {reqs[r].rows[i].login : i \in 1..Len(reqs[r].rows)}

\* the time the list request was issued at
ListClock(r) == reqs[r].countQuery.repl[1].v

\* the banned accounts that come before that login in the order of the list
BannedBefore(login, clock) ==
    {a \in accounts : a.ban_expire > clock /\ a.login # login /\ StrLeq(a.login, login)}

\* C13: a list of the banned accounts, issued before the ban expires,
\* includes a login whose last write is a ban answered 200, and does not
\* include a login whose last write is an unban answered 200, whatever the
\* number of other banned accounts
C13_BanThenListed ==
    \A r \in Slots :
        BannedListDone(r) =>
            \A e \in hist :
                /\ (e.op = "ban" /\ e.v > ListClock(r)) => e.login \in ListedLogins(r)
                /\ Unbanned(hist, e.login) => e.login \notin ListedLogins(r)

\* C13 (amended): the same, for a banned login that fewer than the default
\* limit of banned accounts precede in the order of the list
C13_BanThenListedOnFirstPage ==
    \A r \in Slots :
        BannedListDone(r) =>
            \A e \in hist :
                /\ (e.op = "ban" /\ e.v > ListClock(r)
                       /\ Cardinality(BannedBefore(e.login, ListClock(r))) < DefaultLimit) =>
                       e.login \in ListedLogins(r)
                /\ Unbanned(hist, e.login) => e.login \notin ListedLogins(r)

\* one list shows a login banned before it and leaves out a login unbanned
\* before it
C13_Witness ==
    \E r \in Slots :
        /\ BannedListDone(r)
        /\ \E e \in hist : e.op = "ban" /\ e.v > ListClock(r)
                            /\ e.login \in ListedLogins(r)
        /\ \E e \in hist : e.op = "unban" /\ e.login \notin ListedLogins(r)

\* banExpire parses to a timestamp after the time the route read
FutureBan(req) ==
    /\ Truthy(req.q.banExpire)
    /\ IsInt(UnixOfDate(req.q.banExpire))
    /\ UnixOfDate(req.q.banExpire).v > req.clock

\* C14: a ban request for an existing account, the database not failing,
\* is answered 200 and writes ban_expire when banExpire is a time after the
\* current time, and is answered 400 and writes nothing for every other
\* banExpire
C14_BanOnlyFuture ==
    [][\A r \in Slots :
          (/\ reqs[r].pc # "done" /\ reqs'[r].pc = "done"
           /\ reqs'[r].route = "ban"
           /\ reqs'[r].err # "DatabaseError"
           /\ accountsDb_exists(reqs'[r].login)) =>
              IF FutureBan(reqs'[r])
              THEN /\ reqs'[r].status = 200
                   /\ accounts' =
                        {IF a.login = reqs'[r].login
                         THEN [a EXCEPT !.ban_expire = UnixOfDate(reqs'[r].q.banExpire).v]
                         ELSE a : a \in accounts}
              ELSE /\ reqs'[r].status = 400
                   /\ accounts' = accounts]_vars

\* C15: every unban of an existing account, the database not failing, is
\* answered 200 and sets ban_expire to 0 leaving every other column and
\* every other account as they are; an unban that follows an unban of the
\* same account changes nothing
C15_UnbanIdempotent ==
    [][\A r \in Slots :
          (/\ reqs[r].pc # "done" /\ reqs'[r].pc = "done"
           /\ reqs'[r].route = "unban"
           /\ reqs'[r].err # "DatabaseError"
           /\ accountsDb_exists(reqs'[r].login)) =>
              /\ reqs'[r].status = 200
              /\ accounts' = {IF a.login = reqs'[r].login
                              THEN [a EXCEPT !.ban_expire = 0] ELSE a : a \in accounts}
              /\ Unbanned(hist, reqs'[r].login) => accounts' = accounts]_vars

\* the second of two consecutive unbans of an account that was banned is
\* answered 200
C15_Witness ==
    \E r \in Slots :
        /\ reqs[r].route = "unban" /\ reqs[r].pc = "done" /\ reqs[r].status = 200
        /\ [login |-> reqs[r].login, op |-> "unbanAgain", v |-> 0] \in hist
        /\ \E a \in accounts : a.login = reqs[r].login /\ a.ban_expire = 0


(***************************************************************************)
(* Properties of the character routes of one path segment.                 *)
(***************************************************************************)
\* a decimal number: an optional sign, then digits only
IsNumber(segment) ==
    LET u == IF segment # <<>> /\ Head(segment) = "-" THEN Tail(segment) ELSE segment
    IN  u # <<>> /\ \A i \in 1..Len(u) : IsDigit(u[i])

\* the step that finishes a request for /api/game/characters/{segment}, the
\* database not failing
CharacterPathFinishes(r) ==
    /\ reqs[r].pc # "done" /\ reqs'[r].pc = "done"
    /\ reqs'[r].route = "characters"
    /\ reqs'[r].err # "DatabaseError"

\* C18: a request for /api/game/characters/{charId} is answered 400 when
\* charId is not a number, 404 when no character has that obj_Id or the
\* character is soft-deleted, and 200 with the enriched character otherwise
C18_CharIdAnswers ==
    [][\A r \in Slots :
          (CharacterPathFinishes(r) /\ reqs'[r].handler = "charId"
              /\ reqs'[r].login # CsStats) =>
              LET charId == reqs'[r].login
                  live == {c \in characters : IntToStr(c.obj_Id) = charId
                                                /\ c.deletetime = 0}
              IN  IF ~IsNumber(charId) THEN reqs'[r].status = 400
                  ELSE IF live = {} THEN reqs'[r].status = 404
                  ELSE /\ reqs'[r].status = 200
                       /\ \E c \in live : reqs'[r].rows = <<enrichCharacterData(c)>>]_vars

\* C19: a request for /api/game/characters/stats is dispatched to the stats
\* handler, calls the aggregate operation of its type and is answered 200
C19_StatsDispatched ==
    [][\A r \in Slots :
          (CharacterPathFinishes(r) /\ reqs'[r].login = CsStats) =>
              /\ reqs'[r].handler = "stats"
              /\ reqs'[r].op = StatsOperation(reqs'[r].q.type)
              /\ reqs'[r].status = 200]_vars

(***************************************************************************)
(* Properties of the derived fields.                                       *)
(***************************************************************************)
\* a date field of a response row and the timestamp column it renders
DateFieldOk(row, field, column) ==
    IF row[column] = SqlNull \/ row[column] = 0
    THEN row[field] = JsNull
    ELSE row[field] = toISOString(row[column])

\* C20: in every list response each derived date field is null exactly
\* when its timestamp column is 0 or absent and is the ISO-8601 rendering
\* of the timestamp otherwise
C20_DateFields ==
    \A r \in Slots :
        (reqs[r].pc = "done" /\ reqs[r].status = 200 /\ reqs[r].op \in ListOps) =>
            \A i \in 1..Len(reqs[r].rows) :
                LET row == reqs[r].rows[i]
                IN  CASE reqs[r].op = "getAccounts" ->
                            /\ DateFieldOk(row, "lastactiveDate", "lastactive")
                            /\ DateFieldOk(row, "banExpireDate", "ban_expire")
                      [] reqs[r].op = "getAccountLoginHistory" ->
                            DateFieldOk(row, "date", "time")
                      [] OTHER ->
                            /\ DateFieldOk(row, "createDate", "createtime")
                            /\ DateFieldOk(row, "deleteDate", "deletetime")
                            /\ DateFieldOk(row, "lastAccessDate", "lastAccess")

(***************************************************************************)
(* Properties of the failure of a query.                                   *)
(***************************************************************************)
\* the errors of the database
DbErrors == {"DatabaseError", "DuplicateEntry", "SqlError"}

\* the place of a query in its handler: a handler issues its queries in
\* increasing order
QueryRank(pc) ==
    CASE pc = "idle" -> 0
      [] pc \in {"exists", "load", "loadById"} -> 1
      [] pc \in {"create", "count", "banExpire", "passwordUpdate", "deleteAccount",
                 "banUpdate", "unbanUpdate"} -> 2
      [] pc \in {"update", "data", "deleteLog"} -> 3
      [] OTHER -> 4

\* C21: a query that fails ends its request with one response of status
\* 500 and writes nothing; a request that was answered issues no query and
\* sends no other response; every query is attempted once, the handler
\* moving on to a later query or to its response
C21_FailOnce ==
    [][\A r \in Slots :
          /\ (reqs[r].pc # "done" /\ reqs'[r].pc = "done" /\ reqs'[r].err \in DbErrors) =>
                /\ reqs'[r].status = 500
                /\ reqs'[r].nq = reqs[r].nq + 1
                /\ UNCHANGED <<accounts, account_log, characters>>
          /\ reqs[r].pc = "done" => reqs'[r] \in {reqs[r], IdleReq}
          /\ (reqs[r].pc \notin {"idle", "done"} /\ reqs'[r] # reqs[r]) =>
                /\ reqs'[r].nq = reqs[r].nq + 1
                /\ QueryRank(reqs'[r].pc) > QueryRank(reqs[r].pc)]_vars

\* the second statement of a request failed and the request was answered 500
C21_Witness ==
    \E r \in Slots :
        /\ reqs[r].pc = "done" /\ reqs[r].err = "DatabaseError"
        /\ reqs[r].status = 500 /\ reqs[r].nq >= 2
        /\ reqs[r].route \in {"register", "delete"}

(***************************************************************************)
(* Properties of the login history.                                        *)
(***************************************************************************)
\* C22: a history request for a login without account is answered 404
\* after the one query of accountsDb.exists; the entries of a response are
\* entries of account_log of that login, newest first; no step of the
\* request writes account_log
C22_HistoryOfLogin ==
    [][\A r \in Slots :
          (reqs'[r].route = "accountHistory" /\ reqs'[r] # reqs[r]) =>
              /\ account_log' = account_log
              /\ (reqs[r].pc = "exists" /\ reqs'[r].err # "DatabaseError"
                    /\ ~accountsDb_exists(reqs[r].login)) =>
                    /\ reqs'[r].pc = "done" /\ reqs'[r].status = 404
                    /\ reqs'[r].nq = 1 /\ reqs'[r].op = ""
              /\ (reqs'[r].pc = "done" /\ reqs'[r].status = 200) =>
                    LET rows == reqs'[r].rows
                    IN  /\ \A i \in 1..Len(rows) :
                              \E e \in account_log :
                                  /\ e.login = reqs'[r].login
                                  /\ rows[i] = EnrichEntry(
                                         SelectRow("getAccountLoginHistory", e))
                        /\ \A i, j \in 1..Len(rows) :
                              i < j => rows[i].time >= rows[j].time]_vars

\* a response of two entries of different times
C22_Witness ==
    \E r \in Slots :
        /\ reqs[r].route = "accountHistory" /\ reqs[r].pc = "done"
        /\ reqs[r].status = 200
        /\ Len(reqs[r].rows) >= 2
        /\ reqs[r].rows[1].time > reqs[r].rows[2].time

(***************************************************************************)
(* Properties of the WHERE clauses.                                        *)
(***************************************************************************)
\* a request whose list operation built its two statements
Built(req, op) == req.op = op /\ req.countQuery # NoSqlQuery

\* the places of the fragments on that column in a clause
FragmentsOn(clause, col) == {i \in 1..Len(clause) : clause[i].col = col}

\* C23: the clause of getCharacters holds one predicate on deletetime,
\* `deletetime > 0` when deletedOnly is the string true and `deletetime = 0`
\* otherwise, so it is never empty
C23_OneDeletedPredicate ==
    \A r \in Slots :
        Built(reqs[r], "getCharacters") =>
            \A clause \in {reqs[r].countQuery.clause, reqs[r].dataQuery.clause} :
                /\ clause # <<>>
                /\ Cardinality(FragmentsOn(clause, "deletetime")) = 1
                /\ \A i \in FragmentsOn(clause, "deletetime") :
                      clause[i].op = IF reqs[r].q.deletedOnly = Str(CsTrue)
                                     THEN "> 0" ELSE "= 0"

\* a list of the deleted characters only, and it is not empty
C23_Witness ==
    \E r \in Slots :
        /\ Built(reqs[r], "getCharacters")
        /\ reqs[r].pc = "done" /\ reqs[r].status = 200
        /\ reqs[r].q.deletedOnly = Str(CsTrue)
        /\ reqs[r].rows # <<>>
        /\ \A i \in 1..Len(reqs[r].rows) : reqs[r].rows[i].deletetime > 0

\* the two statements of a request
Statements(req) == <<req.countQuery, req.dataQuery>>

\* the statements the account list route builds for that query string
AccountStatements(req, q) ==
    Statements(AccountListRoute(NewReq("accountList", req.hdr, q, <<>>), 0))

\* the statements the character list route builds for that query string
CharacterStatements(req, q) ==
    Statements(CharacterListRoute(NewReq("characterList", req.hdr, q, <<>>)))

\* the parameter bound to the placeholder of the i-th fragment
ParamAt(query, i) ==
    query.repl[Cardinality({j \in 1..i : HasPlaceholder(query.clause[j])})]

\* C24: a flag of a list request (isBanned, online, deletedOnly) whose raw
\* value is not the string true builds the statements of a request without
\* that flag
C24_FlagsOnlyTrue ==
    \A r \in Slots :
        LET req == reqs[r]
        IN  /\ (Built(req, "getAccounts") /\ req.q.isBanned # Str(CsTrue)) =>
                  Statements(req) =
                      AccountStatements(req, [req.q EXCEPT !.isBanned = Undefined])
            /\ (Built(req, "getCharacters") /\ req.q.deletedOnly # Str(CsTrue)) =>
                  Statements(req) =
                      CharacterStatements(req, [req.q EXCEPT !.deletedOnly = Undefined])
            /\ (Built(req, "getCharacters") /\ req.q.online # Str(CsTrue)) =>
                  Statements(req) =
                      CharacterStatements(req, [req.q EXCEPT !.online = Undefined])

\* C24 (amended): isBanned and deletedOnly whose raw value is not the
\* string true build the statements of a request without that flag; online
\* adds `online = ?` for every raw value that is present, bound to 1 for the
\* string true and to 0 for every other value, and nothing when absent
C24_FlagsAsBuilt ==
    \A r \in Slots :
        LET req == reqs[r]
            clause == req.countQuery.clause
        IN  /\ (Built(req, "getAccounts") /\ req.q.isBanned # Str(CsTrue)) =>
                  Statements(req) =
                      AccountStatements(req, [req.q EXCEPT !.isBanned = Undefined])
            /\ (Built(req, "getAccounts") /\ req.q.isBanned = Str(CsTrue)) =>
                  Cardinality(FragmentsOn(clause, "ban_expire")) = 1
            /\ (Built(req, "getCharacters") /\ req.q.deletedOnly # Str(CsTrue)) =>
                  Statements(req) =
                      CharacterStatements(req, [req.q EXCEPT !.deletedOnly = Undefined])
            /\ Built(req, "getCharacters") =>
                  IF req.q.online = Undefined
                  THEN FragmentsOn(clause, "online") = {}
                  ELSE /\ Cardinality(FragmentsOn(clause, "online")) = 1
                       /\ req.dataQuery.clause = clause
                       /\ \A i \in FragmentsOn(clause, "online") :
                             /\ clause[i].op = "= ?"
                             /\ ParamAt(req.countQuery, i) =
                                   IF req.q.online = Str(CsTrue) THEN Num(1) ELSE Num(0)
                             /\ ParamAt(req.dataQuery, i) = ParamAt(req.countQuery, i)

\* online=false lists the characters that are not online
C24_Witness ==
    \E r \in Slots :
        /\ Built(reqs[r], "getCharacters")
        /\ reqs[r].pc = "done" /\ reqs[r].status = 200
        /\ reqs[r].q.online = Str(<<"f", "a", "l", "s", "e">>)
        /\ reqs[r].rows # <<>>
        /\ \A i \in 1..Len(reqs[r].rows) : reqs[r].rows[i].online = 0

\* a raw value that is not a base-10 integer
NotInteger(raw) == raw = Undefined \/ ~IsNumber(raw.s)

\* C25: a numeric filter (accessLevel, lastServerId, clanid, sex, minLevel,
\* maxLevel) whose raw value is not a base-10 integer adds no predicate,
\* and no NaN is bound as a parameter
C25_NumbersGuarded ==
    \A r \in Slots :
        LET req == reqs[r]
            clause == req.countQuery.clause
            Omitted(raw, col) == NotInteger(raw) => FragmentsOn(clause, col) = {}
        IN  /\ (Built(req, "getAccounts") \/ Built(req, "getCharacters")) =>
                  \A i \in 1..Len(req.countQuery.repl) :
                      req.countQuery.repl[i].t # "NaN"
            /\ Built(req, "getAccounts") =>
                  /\ Omitted(req.q.accessLevel, "accessLevel")
                  /\ Omitted(req.q.lastServerId, "lastServerId")
            /\ Built(req, "getCharacters") =>
                  /\ Omitted(req.q.clanid, "clanid")
                  /\ Omitted(req.q.sex, "sex")
                  /\ (NotInteger(req.q.minLevel) /\ NotInteger(req.q.maxLevel)) =>
                        FragmentsOn(clause, "base_class_id") = {}

\* the timestamp a date filter stands for: midnight UTC of a date of shape
\* YYYY-MM-DD, the integer of any other value that parses, NaN for none
ExpectedTimestamp(raw) ==
    IF raw = Undefined \/ raw.s = <<>> THEN NaN
    ELSE IF MatchesDateShape(raw.s) THEN DateToUnix(raw.s)
    ELSE parseInt(raw)

\* the date filter of that raw value adds its one predicate, bound to its
\* timestamp, or none when it stands for no timestamp
DatePredicateOk(query, col, op, raw) ==
    LET at == {i \in FragmentsOn(query.clause, col) : query.clause[i].op = op}
    IN  IF ExpectedTimestamp(raw) = NaN THEN at = {}
        ELSE /\ Cardinality(at) = 1
             /\ \A i \in at : ParamAt(query, i) = ExpectedTimestamp(raw)

\* C26: each date filter adds its predicate bound to midnight UTC of a date
\* of shape YYYY-MM-DD, or to the integer of any other value that parses,
\* the value 0 included, and adds nothing for a value that does not parse
C26_DateFilters ==
    \A r \in Slots :
        LET req == reqs[r]
            cq == req.countQuery
        IN  /\ Built(req, "getAccounts") =>
                  /\ DatePredicateOk(cq, "lastactive", ">= ?", req.q.lastActiveFrom)
                  /\ DatePredicateOk(cq, "lastactive", "<= ?", req.q.lastActiveTo)
            /\ Built(req, "getCharacters") =>
                  /\ DatePredicateOk(cq, "createtime", ">= ?", req.q.createdAfter)
                  /\ DatePredicateOk(cq, "createtime", "<= ?", req.q.createdBefore)
                  /\ DatePredicateOk(cq, "lastAccess", ">= ?", req.q.lastAccessAfter)
                  /\ DatePredicateOk(cq, "lastAccess", "<= ?", req.q.lastAccessBefore)

\* the fragments of each buildWhereClause in the order of its filter checks
AccountFragments ==
    <<Frag("login", "LIKE ?"), Frag("l2email", "LIKE ?"), Frag("lastIP", "LIKE ?"),
      Frag("lastHWID", "LIKE ?"), Frag("lastServerId", "= ?"),
      Frag("accessLevel", "= ?"), Frag("lastactive", ">= ?"),
      Frag("lastactive", "<= ?"), Frag("ban_expire", "> ?")>>

CharacterFragments ==
    <<Frag("char_name", "LIKE ?"), Frag("account_name", "LIKE ?"),
      Frag("clanid", "= ?"), Frag("online", "= ?"), Frag("base_class_id", ">= ?"),
      Frag("base_class_id", "<= ?"), Frag("createtime", ">= ?"),
      Frag("createtime", "<= ?"), Frag("lastAccess", ">= ?"),
      Frag("lastAccess", "<= ?"), Frag("sex", "= ?"), Frag("deletetime", "> 0"),
      Frag("deletetime", "= 0")>>

\* the values the filters of a query string bind, in the order above
AccountValues(q, clock) ==
    <<Percent(q.login), Percent(q.email), Percent(q.lastIP), Percent(q.lastHWID),
      parseInt(q.lastServerId), parseInt(q.accessLevel),
      parseTimestamp(q.lastActiveFrom), parseTimestamp(q.lastActiveTo), Num(clock)>>

CharacterValues(q) ==
    <<Percent(q.char_name), Percent(q.account_name), parseInt(q.clanid),
      IF q.online = Str(CsTrue) THEN Num(1) ELSE Num(0), parseInt(q.minLevel),
      parseInt(q.maxLevel), parseTimestamp(q.createdAfter),
      parseTimestamp(q.createdBefore), parseTimestamp(q.lastAccessAfter),
      parseTimestamp(q.lastAccessBefore), parseInt(q.sex), Undefined, Undefined>>

PlaceOf(fragments, frag) == CHOOSE k \in 1..Len(fragments) : fragments[k] = frag

\* a statement whose clause is made of the fixed fragments in their order,
\* with as many parameters as placeholders, each the value of its filter
ClauseWellFormed(query, fragments, values) ==
    LET clause == query.clause
    IN  /\ \A i \in 1..Len(clause) : \E k \in 1..Len(fragments) : fragments[k] = clause[i]
        /\ \A i, j \in 1..Len(clause) :
              i < j => PlaceOf(fragments, clause[i]) < PlaceOf(fragments, clause[j])
        /\ Cardinality({i \in 1..Len(clause) : HasPlaceholder(clause[i])})
              = Len(query.repl)
        /\ \A i \in 1..Len(clause) :
              HasPlaceholder(clause[i]) =>
                  ParamAt(query, i) = values[PlaceOf(fragments, clause[i])]

\* C27: in the clause of either buildWhereClause the fragments are the
\* fixed fragments in the order of the filter checks, the parameters are as
\* many as the placeholders and the i-th is the value of the filter of the
\* i-th placeholder; the clause of accounts is empty when no predicate was
\* added and only then
C27_ClauseMatchesParams ==
    \A r \in Slots :
        LET req == reqs[r]
            cq == req.countQuery
        IN  /\ Built(req, "getAccounts") =>
                  /\ \E clock \in 0..now :
                        ClauseWellFormed(cq, AccountFragments, AccountValues(req.q, clock))
                  /\ cq.clause = <<>> <=> cq.repl = <<>>
            /\ Built(req, "getCharacters") =>
                  ClauseWellFormed(cq, CharacterFragments, CharacterValues(req.q))

\* every filter of accounts at once: nine fragments and nine parameters
C27_Witness ==
    \E r \in Slots :
        /\ Built(reqs[r], "getAccounts")
        /\ Len(reqs[r].countQuery.clause) = Len(AccountFragments)
        /\ Len(reqs[r].countQuery.repl) = Len(AccountFragments)

(***************************************************************************)
(* Properties of the ban status in the responses.                          *)
(***************************************************************************)
\* C28: every account of a list response asked with isBanned=true is
\* shown banned, with a date of expiry, also when the clock advances
\* between the building of the clause and the enrichment of the rows
C28_BannedListShowsBanned ==
    \A r \in Slots :
        (Built(reqs[r], "getAccounts") /\ reqs[r].pc = "done" /\ reqs[r].status = 200
            /\ reqs[r].q.isBanned = Str(CsTrue)) =>
            \A i \in 1..Len(reqs[r].rows) :
                /\ reqs[r].rows[i].isBanned = JsTrue
                /\ reqs[r].rows[i].banExpireDate # JsNull

\* the flag and the date of a response row agree
FlagMatchesDate(row, flag, date) ==
    /\ row[flag] \in {JsTrue, JsFalse}
    /\ row[flag] = JsTrue <=> row[date] # JsNull

\* C29: in every response the status flag is a boolean and is true when
\* its date is not null and only then: isBanned and banExpireDate of an
\* account of a list or of the detail route, isDeleted and deleteDate of a
\* character, also when the account is deleted between the two queries of
\* the detail route
C29_FlagsMatchDates ==
    \A r \in Slots :
        (reqs[r].pc = "done" /\ reqs[r].status = 200) =>
            \A i \in 1..Len(reqs[r].rows) :
                CASE reqs[r].route = "load" \/ reqs[r].op = "getAccounts" ->
                        FlagMatchesDate(reqs[r].rows[i], "isBanned", "banExpireDate")
                  [] reqs[r].op \in {"getCharacters", "getAccountCharacters", "loadById"} ->
                        FlagMatchesDate(reqs[r].rows[i], "isDeleted", "deleteDate")
                  [] OTHER -> TRUE

(***************************************************************************)
(* Properties of the writes against a concurrent DELETE.                   *)
(***************************************************************************)
\* the step in which ban, unban or change-password runs its write
WriteStep(r) ==
    /\ reqs[r].pc \in {"banUpdate", "unbanUpdate", "passwordUpdate"}
    /\ reqs'[r].pc = "done"
    /\ reqs'[r].err \notin DbErrors

\* C30: ban, unban and change-password answer 200 only when the account
\* is there as their write runs; when a DELETE removed it after the test of
\* existence they answer 404, and they never bring the account back
C30_WriteNeedsAccount ==
    [][\A r \in Slots :
          WriteStep(r) =>
              /\ reqs'[r].status = 200 => accountsDb_exists(reqs[r].login)
              /\ ~accountsDb_exists(reqs[r].login) =>
                    /\ reqs'[r].status = 404
                    /\ accounts' = accounts]_vars

====
